---------------------------- MODULE Spec2Model ----------------------------
(***************************************************************************)
(* Storage abstraction of the asset server: the upload, retrieval and      *)
(* delete handlers of the 3D-model, OBJ-file, integer-array and image      *)
(* controllers, over a record store (MongoDB through mongoose), an object  *)
(* store (S3) and the local uploads directory.                             *)
(*                                                                         *)
(* A handler is one action: the route's multer middleware, the handler     *)
(* body and every backend call it makes.  Backend outcomes the code cannot *)
(* control (a failing S3 call, a failing unlink, a failing save) are       *)
(* inputs of the action.                                                   *)
(***************************************************************************)
EXTENDS Integers, Sequences, FiniteSets, TLC

(***************************************************************************)
(* Bounds of the model.                                                    *)
(***************************************************************************)
MaxUploads == 2             \* upload requests in a behaviour
MaxClock == 5               \* Date.now() of the auth routes, in half seconds
MaxLines == 3               \* lines of an OBJ text handed to the extractor
MaxDocs == 3                \* records in a collection that is listed
MaxTime == MaxUploads - 1   \* Date.now() ranges over 0..MaxTime: enough for every
                            \* two uploads to share a timestamp or to differ in it

(***************************************************************************)
(* JavaScript values.                                                      *)
(***************************************************************************)
Undefined   == "undefined"                  \* an absent string field

\* JavaScript numbers: the integers, NaN, the two infinities, and undefined
\* where a number is read past the end of an array
Num(n)      == [k |-> "num", v |-> n]
NaN         == [k |-> "NaN", v |-> 0]
Infinity    == [k |-> "Infinity", v |-> 1]
NegInfinity == [k |-> "Infinity", v |-> -1]
UndefinedN  == [k |-> "undefined", v |-> 0]

(***************************************************************************)
(* String helpers, computed character by character as the JavaScript       *)
(* built-ins compute them.                                                 *)
(***************************************************************************)
CharAt(s, i) == SubSeq(s, i, i)

\* String.prototype.startsWith
StartsWith(s, p) == Len(s) >= Len(p) /\ SubSeq(s, 1, Len(p)) = p

\* String.prototype.indexOf, 1-based; 0 when sub does not occur
RECURSIVE IndexFrom(_, _, _)
IndexFrom(s, sub, i) ==
  IF i + Len(sub) - 1 > Len(s) THEN 0
  ELSE IF SubSeq(s, i, i + Len(sub) - 1) = sub THEN i
  ELSE IndexFrom(s, sub, i + 1)

IndexOf(s, sub) == IndexFrom(s, sub, 1)

\* String.prototype.includes
Includes(s, sub) == IndexOf(s, sub) # 0

\* String.prototype.lastIndexOf for a single character, 1-based; 0 when absent
RECURSIVE LastIndexFrom(_, _, _)
LastIndexFrom(s, ch, i) ==
  IF i = 0 THEN 0
  ELSE IF CharAt(s, i) = ch THEN i
  ELSE LastIndexFrom(s, ch, i - 1)

LastIndexOf(s, ch) == LastIndexFrom(s, ch, Len(s))

\* String.prototype.split with a one-character separator
RECURSIVE SplitFrom(_, _, _, _)
SplitFrom(s, sep, i, cur) ==
  IF i > Len(s) THEN <<cur>>
  ELSE IF CharAt(s, i) = sep THEN <<cur>> \o SplitFrom(s, sep, i + 1, "")
  ELSE SplitFrom(s, sep, i + 1, cur \o CharAt(s, i))

Split(s, sep) == SplitFrom(s, sep, 1, "")

\* String.prototype.toLowerCase on the letters file names are made of
LowerOf(c) ==
  CASE c = "O" -> "o" [] c = "B" -> "b" [] c = "J" -> "j"
    [] c = "P" -> "p" [] c = "N" -> "n" [] c = "G" -> "g"
    [] c = "T" -> "t" [] c = "X" -> "x" [] c = "A" -> "a"
    [] OTHER -> c

RECURSIVE ToLowerCase(_)
ToLowerCase(s) ==
  IF s = "" THEN "" ELSE LowerOf(CharAt(s, 1)) \o ToLowerCase(SubSeq(s, 2, Len(s)))

\* path.extname: from the last '.' of the base name, "" when there is none
\* or when the name starts with its only dot
ExtName(name) ==
  LET i == LastIndexOf(name, ".")
  IN  IF i <= 1 THEN "" ELSE SubSeq(name, i, Len(name))

\* path.join('uploads', fileName)
PathJoin(dir, fileName) == dir \o "/" \o fileName

(***************************************************************************)
(* Number(token) on the tokens of an OBJ line: decimal integers with an    *)
(* optional sign, the empty string (0), anything else NaN.                 *)
(***************************************************************************)
DigitVal(c) ==
  CASE c = "0" -> 0 [] c = "1" -> 1 [] c = "2" -> 2 [] c = "3" -> 3
    [] c = "4" -> 4 [] c = "5" -> 5 [] c = "6" -> 6 [] c = "7" -> 7
    [] c = "8" -> 8 [] c = "9" -> 9 [] OTHER -> -1

RECURSIVE DigitsVal(_, _)
DigitsVal(s, acc) ==
  IF s = "" THEN acc
  ELSE IF DigitVal(CharAt(s, 1)) < 0 THEN -1
  ELSE DigitsVal(SubSeq(s, 2, Len(s)), 10 * acc + DigitVal(CharAt(s, 1)))

ToNumber(tok) ==
  IF tok = "" THEN Num(0)
  ELSE IF CharAt(tok, 1) = "-"
       THEN IF Len(tok) = 1 \/ DigitsVal(SubSeq(tok, 2, Len(tok)), 0) < 0
            THEN NaN ELSE Num(0 - DigitsVal(SubSeq(tok, 2, Len(tok)), 0))
  ELSE IF DigitsVal(tok, 0) < 0 THEN NaN ELSE Num(DigitsVal(tok, 0))

\* vertex[i] of a JavaScript array: undefined past its end (0-based i)
At(arr, i) == IF i + 1 <= Len(arr) THEN arr[i + 1] ELSE UndefinedN

\* Math.min / Math.max: NaN when an argument is NaN or undefined
MathMin(a, b) ==
  IF a \in {NaN, UndefinedN} \/ b \in {NaN, UndefinedN} THEN NaN
  ELSE IF a = NegInfinity \/ b = NegInfinity THEN NegInfinity
  ELSE IF a = Infinity THEN b
  ELSE IF b = Infinity THEN a
  ELSE IF a.v <= b.v THEN a ELSE b

MathMax(a, b) ==
  IF a \in {NaN, UndefinedN} \/ b \in {NaN, UndefinedN} THEN NaN
  ELSE IF a = Infinity \/ b = Infinity THEN Infinity
  ELSE IF a = NegInfinity THEN b
  ELSE IF b = NegInfinity THEN a
  ELSE IF a.v >= b.v THEN a ELSE b

\* line.split(' ').slice(1)
Tokens(line) == Tail(Split(line, " "))

\* line.split(' ').slice(1).map(Number)
Numbers(line) == [i \in 1..Len(Tokens(line)) |-> ToNumber(Tokens(line)[i])]

EmptyBox ==
  [min |-> [x |-> Infinity, y |-> Infinity, z |-> Infinity],
   max |-> [x |-> NegInfinity, y |-> NegInfinity, z |-> NegInfinity]]

EmptyData == [vertices |-> <<>>, faces |-> <<>>, materials |-> <<>>,
              textures |-> <<>>, boundingBox |-> EmptyBox]

\* a line loop that records no vertex
ParseLineNoVertex(data, line) ==
  IF StartsWith(line, "f ") THEN [data EXCEPT !.faces = Append(@, Tokens(line))]
  ELSE data

\* one iteration of the line loop of parse3DModel
ParseLine(data, line) ==
  IF StartsWith(line, "v ") THEN
    LET vertex == Numbers(line)
        bb     == data.boundingBox
    IN  [data EXCEPT
           !.vertices = Append(@, vertex),
           !.boundingBox =
             [min |-> [x |-> MathMin(bb.min.x, At(vertex, 0)),
                       y |-> MathMin(bb.min.y, At(vertex, 1)),
                       z |-> MathMin(bb.min.z, At(vertex, 2))],
              max |-> [x |-> MathMax(bb.max.x, At(vertex, 0)),
                       y |-> MathMax(bb.max.y, At(vertex, 1)),
                       z |-> MathMax(bb.max.z, At(vertex, 2))]]]
  ELSE IF StartsWith(line, "f ") THEN
    [data EXCEPT !.faces = Append(@, Tokens(line))]
  ELSE IF StartsWith(line, "mtllib ") THEN
    [data EXCEPT !.materials = Append(@, Split(line, " ")[2])]
  ELSE IF StartsWith(line, "vt ") THEN
    [data EXCEPT !.textures = Append(@, Numbers(line))]
  ELSE data

RECURSIVE ParseLines(_, _)
ParseLines(data, lines) ==
  IF lines = <<>> THEN data
  ELSE ParseLines(ParseLine(data, Head(lines)), Tail(lines))

\* parse3DModel(filePath, 'obj') on the content read from filePath; the
\* dimensions and center it derives from the bounding box are left out
parse3DModel(content) == ParseLines(EmptyData, Split(content, "\n"))

\* one iteration of the line loop of parseObjFile (no bounding box)
ParseObjLine(data, line) ==
  IF StartsWith(line, "v ") THEN
    [data EXCEPT !.vertices = Append(@, Numbers(line))]
  ELSE IF StartsWith(line, "f ") THEN
    [data EXCEPT !.faces = Append(@, Tokens(line))]
  ELSE IF StartsWith(line, "mtllib ") THEN
    [data EXCEPT !.materials = Append(@, Split(line, " ")[2])]
  ELSE IF StartsWith(line, "vt ") THEN
    [data EXCEPT !.textures = Append(@, Numbers(line))]
  ELSE data

RECURSIVE ParseObjLines(_, _)
ParseObjLines(data, lines) ==
  IF lines = <<>> THEN data
  ELSE ParseObjLines(ParseObjLine(data, Head(lines)), Tail(lines))

\* parseObjFile(filePath) on the content read from filePath
parseObjFile(content) ==
  ParseObjLines([vertices |-> <<>>, faces |-> <<>>, materials |-> <<>>,
                 textures |-> <<>>], Split(content, "\n"))


(***************************************************************************)
(* Environment and request inputs.                                         *)
(***************************************************************************)
\* process.env.NODE_ENV of the deployment
NODE_ENV == "production"

S3_BUCKET_NAME == "bucket"           \* process.env.S3_BUCKET_NAME
AWS_REGION     == "eu"               \* process.env.AWS_REGION
Host           == "http://localhost" \* req.protocol + '://' + req.get('host')

Triangle == "v 0 0 0\nv 1 0 0\nv 0 1 0\nf 1 2 3\n"
Point    == "v 2 2 2\n"

\* req.file of a request: none attached, or its originalname and bytes
NoFile == [name |-> "", content |-> ""]
MeshFiles == {NoFile,
              [name |-> "a.obj", content |-> Triangle],
              [name |-> "a.obj", content |-> Point],
              [name |-> "b.txt", content |-> Point]}

StorageTypes == {"s3", "local"}      \* req.body.storageType

\* what the environment makes fail during a request: nothing, the call that
\* moves bytes (S3 put / get / delete, file write / unlink), or the record store
UploadFaults == {"none", "bytes", "store"}
GetFaults    == {"none", "bytes"}

\* image uploads: the photo field of the multipart request
ImageFiles == {NoFile,
               [name |-> "p.png", content |-> "PNG-A"],
               [name |-> "p.png", content |-> "PNG-B"],
               [name |-> "x.gif", content |-> "GIF"]}


DeleteFaults == {"none", "bytes", "store"}

BadId  == -1                         \* an id that is no ObjectId (CastError)
Ids    == 1..MaxUploads
ReqIds == Ids \cup {BadId}

\* the controllers; a behaviour exercises the routes of one of them
\* "images" is the multi-backend draft of the image controller behind the
\* images router with multer-s3; "images-disk" is that draft and the disk-only
\* draft behind the images router with disk storage, both on the second
\* imageSchema; "upload" is routes/upload.js together with the S3 draft of
\* the image controller, on the first imageSchema
Controllers == {"3dmodels", "objfiles", "intarrays", "images", "images-disk", "upload"}

VARIABLES
  controller,  \* the controller whose routes this behaviour exercises
  db,          \* record store: _id -> document; kind names the collection
  uploads,     \* upload requests so far; the next one is request uploads + 1
  s3,          \* object store of S3_BUCKET_NAME: key -> body
  disk,        \* files below the application root: relative path -> content
  uploadsDir,  \* whether the directory uploads/ exists
  now,         \* Date.now()
  uploaded,    \* history: _id -> bytes of the upload answered 201 with it, as
               \* long as no delete request has touched the asset
  deleted,     \* history: ids whose delete was answered 200
  req,         \* the request being answered, NoReq between requests
  resp,        \* the response to it
  log,         \* history: what its handler did to the backends
  parsed,      \* what the extractor returned last: [fn, content, data]
  auth,        \* users and blacklisttokens collections, with their history
  procs,       \* requests in flight that interleave: slot -> request
  locators     \* history: _id -> locator the upload answered 201 with it wrote,
               \* until a delete of the asset is answered 200

\* the state outside the asset handlers
aux == <<parsed, auth, procs, locators>>

vars == <<controller, db, uploads, s3, disk, uploadsDir, now, uploaded,
          deleted, req, resp, log, aux>>

NoParsed == [fn |-> "", content |-> "", data |-> <<>>]

\* users: the _ids in the users collection; blacklist: token -> expiresAt;
\* loggedOut: tokens whose logout was answered 200; removed: users whose
\* deleteUser was answered 200
NoAuth == [users |-> {}, blacklist |-> <<>>, loggedOut |-> {}, removed |-> {}]

InitAux == parsed = NoParsed /\ auth = NoAuth /\ procs = <<>> /\ locators = <<>>

(***************************************************************************)
(* Responses and the handler's working state.                              *)
(***************************************************************************)
NoLog == [wrote      |-> "",       \* locator the bytes were written to, "" if none
          saveFailed |-> FALSE,    \* persisting the record was attempted and failed
          rollback   |-> FALSE,    \* deleting the written bytes was attempted
          byteDelete |-> "none",   \* byte deletion of a delete: none / ok / failed
          fetches    |-> 0,        \* GetObject calls sent to S3
          fetch      |-> "none",   \* the last of them: none / ok / failed
          saves      |-> 0,        \* document.save() calls that resolved
          sends      |-> 0]        \* res.json / res.send / stream calls made

\* details and stack are the fields of that name in the JSON body of an error
NoResp == [status |-> 0, error |-> "", bytes |-> Undefined, id |-> 0,
           details |-> Undefined, stack |-> FALSE,
           imagePath |-> Undefined, publicUrl |-> Undefined,
           \* a list: the _ids of the page, total and pages of the body
           docs |-> <<>>, total |-> UndefinedN, pages |-> UndefinedN]

NoReq == [op |-> "", id |-> 0, file |-> NoFile, route |-> "", storageType |-> "",
          fault |-> "", page |-> Undefined, limit |-> Undefined]

Idle == req = NoReq

\* the state a handler starts from
Same == [db |-> db, s3 |-> s3, disk |-> disk, uploadsDir |-> uploadsDir,
         uploaded |-> uploaded, deleted |-> deleted, resp |-> NoResp, log |-> NoLog]

\* res.status(status).json({ success: false, error })
Fail(st, status, error) ==
  [st EXCEPT !.log.sends = @ + 1,
             !.resp = [NoResp EXCEPT !.status = status, !.error = error]]

\* res.status(status).json({ success: false, error, details: error.message })
FailDetails(st, status, error, details) ==
  [st EXCEPT !.log.sends = @ + 1,
             !.resp = [NoResp EXCEPT !.status = status, !.error = error,
                                     !.details = details]]

\* an error body with ...(process.env.NODE_ENV === 'development' && { stack })
FailStack(st, status, error) ==
  [st EXCEPT !.log.sends = @ + 1,
             !.resp = [NoResp EXCEPT !.status = status, !.error = error,
                                     !.stack = (NODE_ENV = "development")]]

\* the error middleware of index.js: err.statusCode || 500, err.message
ErrorMiddleware(st, message) == FailStack(st, 500, message)

\* error.message of the failure of a backend call
ErrorMessage(fault) ==
  CASE fault = "bytes" -> "storage failure"
    [] fault = "store" -> "database failure"
    [] OTHER -> "failure"

\* error.message of findById on a malformed id
CastErrorMessage == "Cast to ObjectId failed"

\* an upload whose response after the save fails and is answered by the catch
CreatedThenError(st, id) ==
  [st EXCEPT !.log.sends = @ + 1,
             !.resp = [NoResp EXCEPT !.status = 500, !.error = "Failed"]]

\* the 201 of an upload: res.status(201).json({ success: true, data })
Created(st, id) ==
  [st EXCEPT !.log.sends = @ + 1,
             !.resp = [NoResp EXCEPT !.status = 201, !.id = id]]

\* a 200 that streams or sends the bytes of the asset
Sent(st, bytes) ==
  [st EXCEPT !.log.sends = @ + 1,
             !.resp = [NoResp EXCEPT !.status = 200, !.bytes = bytes]]

\* a 200 with a JSON body
Ok(st) ==
  [st EXCEPT !.log.sends = @ + 1,
             !.resp = [NoResp EXCEPT !.status = 200]]

\* the upload handlers
UploadOps == {"create3DModel", "createObjFile", "createIntArray", "addImage",
              "addImageDisk", "addImageS3", "upload"}

\* a request arrives at an idle server and its handler runs to the response
Commit(request, st) ==
  /\ Idle
  /\ db' = st.db
  /\ s3' = st.s3
  /\ disk' = st.disk
  /\ uploadsDir' = st.uploadsDir
  /\ uploaded' = st.uploaded
  /\ deleted' = st.deleted
  /\ req' = request
  /\ resp' = st.resp
  /\ log' = st.log
  /\ uploads' = IF request.op \in UploadOps THEN uploads + 1 ELSE uploads
  /\ locators' =
       LET kept == [id \in DOMAIN locators \ st.deleted |-> locators[id]]
       IN  IF request.op \in UploadOps /\ st.resp.status = 201
             THEN (st.resp.id :> st.log.wrote) @@ kept
           ELSE kept
  /\ UNCHANGED <<controller, now, parsed, auth, procs>>

Remove(f, k) == [x \in DOMAIN f \ {k} |-> f[x]]

\* a fault is the failure of a backend call of the request, so there is one
\* only in a request whose handler gets as far as calling a backend
Faulty(fault, reachesBackend) == fault = "none" \/ reachesBackend

(***************************************************************************)
(* The backends.                                                           *)
(***************************************************************************)
\* const uniqueSuffix = Date.now() + '-' + Math.round(Math.random() * 1E9);
\* Math.random() is a generator that does not repeat within a run; an upload
\* draws from it at most once, and the draw of the k-th upload request is
\* modelled as k.
UniqueSuffix == ToString(now) \o "-" \o ToString(uploads + 1)

\* s3.send(new PutObjectCommand({ Bucket, Key, Body }))
PutObject(st, key, body) ==
  [st EXCEPT !.s3 = (key :> body) @@ @, !.log.wrote = key]

\* s3.send(new GetObjectCommand({ Bucket, Key })): fails when the call fails
\* or the bucket has no such key
GetObject(st, key, fault) ==
  [st EXCEPT !.log.fetches = @ + 1,
             !.log.fetch = IF fault = "bytes" \/ key \notin DOMAIN st.s3
                           THEN "failed" ELSE "ok"]

\* s3.send(new DeleteObjectCommand({ Bucket, Key })): succeeds on an absent key too
DeleteObject(st, key) == [st EXCEPT !.s3 = Remove(@, key)]

\* the URL of an object: https://<bucket>.s3.<region>.amazonaws.com/<key>
S3Url(key) ==
  "https://" \o S3_BUCKET_NAME \o ".s3." \o AWS_REGION \o ".amazonaws.com/" \o key

\* new URL(fileUrl).pathname.substring(1): what follows the first '/' after
\* the "scheme://" of the URL
UrlKey(url) ==
  LET afterScheme == SubSeq(url, IndexOf(url, "://") + 3, Len(url))
      slash       == IndexOf(afterScheme, "/")
  IN  IF slash = 0 THEN "" ELSE SubSeq(afterScheme, slash + 1, Len(afterScheme))

\* ensureUploadsDir: fs.access, else fs.mkdir(recursive)
ensureUploadsDir(st) == [st EXCEPT !.uploadsDir = TRUE]

\* fs.writeFile(fullPath, buffer); paths are kept relative to the application
\* root, which path.join(__dirname, '..', filePath) resolves them against
WriteFile(st, filePath, buffer) ==
  [st EXCEPT !.disk = (filePath :> buffer) @@ @, !.log.wrote = filePath]

\* fs.unlink(fullPath), then fs.rmdir(path.dirname(fullPath)), which removes
\* uploads/ only when nothing is left in it
UnlinkAndRmdir(st, filePath) ==
  LET left == Remove(st.disk, filePath)
  IN  [st EXCEPT !.disk = left,
                 !.uploadsDir = IF DOMAIN left = {} THEN FALSE ELSE @]

\* Model.findById(id): the document of that collection, if any
Found(st, kind, id) == id \in DOMAIN st.db /\ st.db[id].kind = kind

\* the _id (an ObjectId, unique) of the document an upload request
\* constructs: the number of the request
NewId == uploads + 1

\* document.save() of a new document
Save(st, doc, content) ==
  [st EXCEPT !.db = (NewId :> doc) @@ @,
             !.uploaded = (NewId :> content) @@ @,
             !.log.saves = @ + 1]

\* a findByIdAndDelete that leaves the document in the collection
findByIdAndDeleteKept(st, id) == st

\* Model.findByIdAndDelete(id); the history of the upload goes with the record
findByIdAndDelete(st, id) ==
  [st EXCEPT !.db = Remove(@, id), !.uploaded = Remove(@, id)]

Init ==
  /\ controller \in Controllers
  /\ db = <<>>
  /\ uploads = 0
  /\ s3 = <<>>
  /\ disk = <<>>
  /\ uploadsDir = FALSE
  /\ now = 0
  /\ uploaded = <<>>
  /\ deleted = {}
  /\ req = NoReq
  /\ resp = NoResp
  /\ log = NoLog
  /\ InitAux

\* time passes between requests; only uploads read the clock, so it is
\* followed as long as an upload can still come
Tick ==
  /\ Idle
  /\ uploads < MaxUploads
  /\ now < MaxTime
  /\ now' = now + 1
  /\ UNCHANGED <<controller, db, uploads, s3, disk, uploadsDir, uploaded,
                 deleted, req, resp, log, aux>>

\* the response has gone out; the server waits for the next request
EndRequest ==
  /\ ~Idle
  /\ req' = NoReq
  /\ resp' = NoResp
  /\ log' = NoLog
  /\ UNCHANGED <<controller, db, uploads, s3, disk, uploadsDir, now,
                 uploaded, deleted, aux>>

(***************************************************************************)
(* 3D models: routes/3dmodels.js and controllers/3DModelController.js.     *)
(***************************************************************************)
Formats3D == {"obj", "fbx", "glb", "gltf", "stl", "dae", "3ds", "blend"}

\* fileFilter of the route: originalname.toLowerCase().slice(originalname.lastIndexOf('.'))
\* must be one of the allowed extensions (slice(-1) when there is no dot)
FileFilter3D(name) ==
  LET i   == LastIndexOf(name, ".")
      ext == IF i = 0 THEN SubSeq(ToLowerCase(name), Len(name), Len(name))
             ELSE SubSeq(ToLowerCase(name), i, Len(name))
  IN  ext \in {"." \o f : f \in Formats3D}

\* new ThreeDModel(modelData): the schema keeps its own paths only (strict),
\* so metadata.storagePath, bucket, originalName and mimeType are dropped and
\* verticesCount / facesCount take their default 0
ThreeDModelDoc(modelData) ==
  [kind        |-> "3DModel",
   fileName    |-> modelData.fileName,
   fileUrl     |-> modelData.fileUrl,
   filePath    |-> modelData.filePath,
   storageType |-> modelData.storageType,
   format      |-> modelData.format,
   metadata    |-> [size |-> modelData.metadata.size,
                    verticesCount |-> 0, facesCount |-> 0]]

\* validation on save: required paths and enums of threeDModelSchema
ThreeDModelValid(doc) ==
  /\ doc.fileName # Undefined
  /\ doc.fileUrl # Undefined
  /\ doc.storageType \in {"s3", "local"}
  /\ doc.format \in Formats3D

\* the key uploadToS3(file) generates
uploadToS3Key(name) ==
  "3d-models/file_" \o UniqueSuffix \o ToLowerCase(ExtName(name))

\* a key resolution that parses the URL of any host
ResolveKeyAnyHost(storagePath, fileUrl) ==
  IF storagePath # Undefined /\ storagePath # "" THEN storagePath
  ELSE UrlKey(fileUrl)

\* the key of a remote record: metadata.storagePath, else parsed from a
\* fileUrl that includes 'amazonaws.com', else none ("")
ResolveKey(storagePath, fileUrl) ==
  IF storagePath # Undefined /\ storagePath # "" THEN storagePath
  ELSE IF Includes(fileUrl, "amazonaws.com") THEN UrlKey(fileUrl)
  ELSE ""

\* metadata.storagePath of a document whose schema may not have the path
StoragePathOf(doc) ==
  IF "storagePath" \in DOMAIN doc.metadata THEN doc.metadata.storagePath ELSE Undefined

\* `${Date.now()}-${req.file.originalname}` under uploads/
LocalPath(name) == PathJoin("uploads", ToString(now) \o "-" \o name)

create3DModel(file, storageType, fault) ==
  LET request == [NoReq EXCEPT !.op = "create3DModel", !.file = file,
                    !.storageType = storageType, !.fault = fault]
      name      == file.name
      extension == ToLowerCase(ExtName(name))
      format    == SubSeq(extension, 2, Len(extension))
      modelData == [fileName |-> name, storageType |-> storageType, format |-> format,
                    fileUrl |-> Undefined, filePath |-> Undefined,
                    metadata |-> [size |-> Len(file.content)]]
      \* await newModel.save(), then 201; a failing save goes to the outer catch
      persist(st, data) ==
        IF fault = "store" \/ ~ThreeDModelValid(ThreeDModelDoc(data))
        THEN FailDetails([st EXCEPT !.log.saveFailed = TRUE], 500,
                         "Failed to create 3D model", ErrorMessage("store"))
        ELSE Created(Save(st, ThreeDModelDoc(data), file.content), NewId)
      key      == uploadToS3Key(name)
      filePath == LocalPath(name)
  IN
  /\ controller = "3dmodels"
  /\ uploads < MaxUploads
  /\ Faulty(fault, file # NoFile)
  /\ Commit(request,
       IF file # NoFile /\ ~FileFilter3D(name)
         THEN ErrorMiddleware(Same, "Invalid file type. Only 3D model files are allowed.")
       ELSE IF file = NoFile THEN Fail(Same, 400, "No file uploaded")
       ELSE IF format \notin Formats3D THEN Fail(Same, 400, "Unsupported 3D model format")
       ELSE IF storageType = "s3" THEN
         IF fault = "bytes"
           THEN FailDetails(Same, 500, "Failed to upload file to S3", ErrorMessage(fault))
         ELSE persist(PutObject(Same, key, file.content),
                      [modelData EXCEPT !.fileUrl = S3Url(key)])
       ELSE
         IF fault = "bytes"
           THEN FailDetails(ensureUploadsDir(Same), 500, "Failed to save file locally",
                            ErrorMessage(fault))
         ELSE IF storageType = "local"
           \* parse3DModel(fullPath, format): fullPath is declared inside the try
           \* block above and is not in scope here, so the call throws a
           \* ReferenceError, which the outer catch answers
           THEN FailDetails(WriteFile(ensureUploadsDir(Same), filePath, file.content),
                            500, "Failed to create 3D model", "fullPath is not defined")
         ELSE persist(WriteFile(ensureUploadsDir(Same), filePath, file.content),
                      [modelData EXCEPT !.filePath = filePath,
                                        !.fileUrl = Host \o "/" \o filePath]))

\* the retrieval shared by get3DModel, getObjFile and getImageById: stream
\* the object from S3, or send the local file
Retrieve(st, doc, fault, s3Error, fileError, storageError) ==
  LET key == ResolveKey(StoragePathOf(doc), doc.fileUrl)
  IN
  IF doc.storageType = "s3" /\ doc.fileUrl # Undefined /\ doc.fileUrl # "" THEN
    \* throw new Error('Could not determine S3 key'), before any fetch
    IF key = "" THEN FailDetails(st, 500, s3Error, "Could not determine S3 key")
    ELSE IF GetObject(st, key, fault).log.fetch = "failed"
      THEN FailDetails(GetObject(st, key, fault), 500, s3Error, ErrorMessage("bytes"))
    ELSE Sent(GetObject(st, key, fault), st.s3[key])
  ELSE IF doc.storageType = "local" /\ doc.filePath # Undefined THEN
    IF doc.filePath \in DOMAIN st.disk THEN Sent(st, st.disk[doc.filePath])
    ELSE FailDetails(st, 404, fileError, "File not found on server")
  ELSE Fail(st, 404, storageError)

get3DModel(id, fault) ==
  LET request == [NoReq EXCEPT !.op = "get3DModel", !.id = id, !.fault = fault]
  IN
  /\ controller = "3dmodels"
  /\ Faulty(fault, Found(Same, "3DModel", id))
  /\ Commit(request,
       IF id = BadId THEN Fail(Same, 400, "Invalid 3D model ID format")
       ELSE IF ~Found(Same, "3DModel", id) THEN Fail(Same, 404, "3D model not found")
       ELSE Retrieve(Same, db[id], fault,
                     "Error retrieving 3D model from storage",
                     "3D model not found",
                     "3D model not available in storage"))

\* the byte deletion shared by the storage-aware delete handlers: S3
\* DeleteObject or local unlink + rmdir, every failure caught and logged
DeleteBytes(st, doc, fault) ==
  LET key == ResolveKey(StoragePathOf(doc), doc.fileUrl)
  IN
  IF doc.storageType = "s3" /\ doc.fileUrl # Undefined THEN
    IF key = "" THEN st
    ELSE IF fault = "bytes" THEN [st EXCEPT !.log.byteDelete = "failed"]
    ELSE [DeleteObject(st, key) EXCEPT !.log.byteDelete = "ok"]
  ELSE IF doc.storageType = "local" /\ doc.filePath # Undefined THEN
    IF doc.filePath \notin DOMAIN st.disk THEN st
    ELSE IF fault = "bytes" THEN [st EXCEPT !.log.byteDelete = "failed"]
    ELSE [UnlinkAndRmdir(st, doc.filePath) EXCEPT !.log.byteDelete = "ok"]
  ELSE st

\* a delete whose byte deletion is not wrapped in its own try/catch, so that
\* its failure reaches the outer catch
DeleteRecordUnlessBytesFailed(st, id, fault, error) ==
  IF fault # "none" THEN FailDetails(st, 500, error, ErrorMessage(fault))
  ELSE Ok([findByIdAndDelete(st, id) EXCEPT !.deleted = @ \cup {id}])

\* await Model.findByIdAndDelete(id), then the 200; a failing store call goes
\* to the outer catch
DeleteRecord(st, id, fault, error) ==
  IF fault = "store"
    THEN FailDetails([st EXCEPT !.uploaded = Remove(@, id)], 500, error, ErrorMessage(fault))
  ELSE Ok([findByIdAndDelete(st, id) EXCEPT !.deleted = @ \cup {id}])

delete3DModel(id, fault) ==
  LET request == [NoReq EXCEPT !.op = "delete3DModel", !.id = id, !.fault = fault]
  IN
  /\ controller = "3dmodels"
  /\ Faulty(fault, Found(Same, "3DModel", id))
  /\ Commit(request,
       IF id = BadId
         THEN FailDetails(Same, 500, "An error occurred while deleting the 3D model",
                          CastErrorMessage)
       ELSE IF ~Found(Same, "3DModel", id) THEN Fail(Same, 404, "3D model not found")
       ELSE DeleteRecord(DeleteBytes(Same, db[id], fault), id, fault,
                         "An error occurred while deleting the 3D model"))

(***************************************************************************)
(* OBJ files: the objfiles router and controller, and the ObjFile model.   *)
(***************************************************************************)
\* fileFilter of the route: originalname.toLowerCase().split('.').pop() === 'obj'
FileFilterObj(name) ==
  LET parts == Split(ToLowerCase(name), ".")
  IN  parts[Len(parts)] = "obj"

\* new ObjFile(fileData): strict schema, metadata keeps size, verticesCount
\* and facesCount; storagePath, bucket, originalName and mimeType are dropped
ObjFileDoc(fileData) ==
  [kind        |-> "ObjFile",
   fileName    |-> fileData.fileName,
   fileUrl     |-> fileData.fileUrl,
   filePath    |-> fileData.filePath,
   storageType |-> fileData.storageType,
   metadata    |-> [size |-> fileData.metadata.size,
                    verticesCount |-> fileData.metadata.verticesCount,
                    facesCount |-> fileData.metadata.facesCount]]

\* validation on save: required paths and enum of objFileSchema
ObjFileValid(doc) ==
  /\ doc.fileName # Undefined
  /\ doc.fileUrl # Undefined
  /\ doc.storageType \in {"s3", "local"}

createObjFile(file, storageType, fault) ==
  LET request == [NoReq EXCEPT !.op = "createObjFile", !.file = file,
                    !.storageType = storageType, !.fault = fault]
      name     == file.name
      fileData == [fileName |-> name, storageType |-> storageType,
                   fileUrl |-> Undefined, filePath |-> Undefined,
                   metadata |-> [size |-> Len(file.content),
                                 verticesCount |-> 0, facesCount |-> 0]]
      persist(st, data) ==
        IF fault = "store" \/ ~ObjFileValid(ObjFileDoc(data))
        THEN FailDetails([st EXCEPT !.log.saveFailed = TRUE], 500,
                         "Failed to create OBJ file", ErrorMessage("store"))
        ELSE Created(Save(st, ObjFileDoc(data), file.content), NewId)
      key      == "obj-files/file_" \o UniqueSuffix \o ToLowerCase(ExtName(name))
      filePath == LocalPath(name)
      written  == WriteFile(ensureUploadsDir(Same), filePath, file.content)
      \* parseObjFile(fullPath) reads back the file just written
      objData  == parseObjFile(written.disk[filePath])
  IN
  /\ controller = "objfiles"
  /\ uploads < MaxUploads
  /\ Faulty(fault, file # NoFile)
  /\ Commit(request,
       IF file # NoFile /\ ~FileFilterObj(name)
         THEN ErrorMiddleware(Same, "Only .obj files are allowed")
       ELSE IF file = NoFile THEN Fail(Same, 400, "No file uploaded")
       ELSE IF storageType = "s3" THEN
         IF fault = "bytes"
           THEN FailDetails(Same, 500, "Failed to create OBJ file", ErrorMessage(fault))
         ELSE persist(PutObject(Same, key, file.content),
                      [fileData EXCEPT !.fileUrl = S3Url(key)])
       ELSE
         IF fault = "bytes"
           THEN FailDetails(ensureUploadsDir(Same), 500, "Failed to create OBJ file",
                            ErrorMessage(fault))
         ELSE persist(written,
                      [fileData EXCEPT
                         !.filePath = filePath,
                         !.fileUrl = Host \o "/" \o filePath,
                         !.metadata.verticesCount = Len(objData.vertices),
                         !.metadata.facesCount = Len(objData.faces)]))

getObjFile(id, fault) ==
  LET request == [NoReq EXCEPT !.op = "getObjFile", !.id = id, !.fault = fault]
  IN
  /\ controller = "objfiles"
  /\ Faulty(fault, Found(Same, "ObjFile", id))
  /\ Commit(request,
       IF id = BadId THEN Fail(Same, 400, "Invalid OBJ file ID format")
       ELSE IF ~Found(Same, "ObjFile", id) THEN Fail(Same, 404, "OBJ file not found")
       ELSE Retrieve(Same, db[id], fault,
                     "Error retrieving OBJ file from storage",
                     "OBJ file not found",
                     "OBJ file not available in storage"))

deleteObjFile(id, fault) ==
  LET request == [NoReq EXCEPT !.op = "deleteObjFile", !.id = id, !.fault = fault]
  IN
  /\ controller = "objfiles"
  /\ Faulty(fault, Found(Same, "ObjFile", id))
  /\ Commit(request,
       IF id = BadId
         THEN FailDetails(Same, 500, "An error occurred while deleting the OBJ file",
                          CastErrorMessage)
       ELSE IF ~Found(Same, "ObjFile", id) THEN Fail(Same, 404, "OBJ file not found")
       ELSE DeleteRecord(DeleteBytes(Same, db[id], fault), id, fault,
                         "An error occurred while deleting the OBJ file"))

(***************************************************************************)
(* Integer arrays: the second module of 3DModelController.js and           *)
(* models/IntArray.js.                                                     *)
(***************************************************************************)
Fraction == [k |-> "fraction", v |-> 0]     \* a number that is no integer, 1.5

\* req.body.data with its JSON.stringify
ArrayInputs ==
  {[isArray |-> FALSE, items |-> <<>>,               json |-> "7"],
   [isArray |-> TRUE,  items |-> <<>>,               json |-> "[]"],
   [isArray |-> TRUE,  items |-> <<Num(1), Num(2)>>, json |-> "[1,2]"],
   [isArray |-> TRUE,  items |-> <<Num(1), Fraction>>, json |-> "[1,1.5]"]}

\* Number.isInteger
IsInteger(x) == x.k = "num"

\* the validator of intArraySchema.data
IntArrayValid(doc) ==
  Len(doc.data) > 0 /\ \A i \in 1..Len(doc.data) : IsInteger(doc.data[i])

createIntArray(data, fault) ==
  LET request == [NoReq EXCEPT !.op = "createIntArray",
                    !.file = [name |-> "", content |-> data.json], !.fault = fault]
      key   == "int-arrays/array_" \o UniqueSuffix \o ".json"
      doc   == [kind |-> "IntArray", data |-> data.items, fileUrl |-> S3Url(key),
                filePath |-> Undefined, storageType |-> "s3",
                metadata |-> [size |-> Len(data.items), storagePath |-> key,
                              bucket |-> S3_BUCKET_NAME]]
      put   == PutObject(Same, key, data.json)
  IN
  /\ controller = "intarrays"
  /\ uploads < MaxUploads
  /\ Faulty(fault, data.isArray /\ Len(data.items) > 0)
  /\ Commit(request,
       IF ~data.isArray \/ Len(data.items) = 0
         THEN Fail(Same, 400, "Data must be a non-empty array")
       ELSE IF fault = "bytes"
         THEN FailDetails(Same, 500, "Failed to create integer array", ErrorMessage(fault))
       ELSE IF fault = "store" \/ ~IntArrayValid(doc)
         THEN FailDetails([put EXCEPT !.log.saveFailed = TRUE], 500,
                          "Failed to create integer array", ErrorMessage("store"))
       ELSE Created(Save(put, doc, data.json), NewId))

\* getIntArray: the record itself is the response; every exception, the
\* CastError of a malformed id included, goes to the one catch
getIntArray(id) ==
  LET request == [NoReq EXCEPT !.op = "getIntArray", !.id = id, !.fault = "none"]
  IN
  /\ controller = "intarrays"
  /\ Commit(request,
       IF id = BadId
         THEN FailDetails(Same, 500, "Error fetching integer array", CastErrorMessage)
       ELSE IF ~Found(Same, "IntArray", id) THEN Fail(Same, 404, "Integer array not found")
       ELSE Ok(Same))

deleteIntArray(id, fault) ==
  LET request == [NoReq EXCEPT !.op = "deleteIntArray", !.id = id, !.fault = fault]
      array   == db[id]
      cleaned ==
        IF array.storageType = "s3" /\ array.metadata.storagePath # Undefined THEN
          IF fault = "bytes" THEN [Same EXCEPT !.log.byteDelete = "failed"]
          ELSE [DeleteObject(Same, array.metadata.storagePath)
                  EXCEPT !.log.byteDelete = "ok"]
        ELSE Same
  IN
  /\ controller = "intarrays"
  /\ Faulty(fault, Found(Same, "IntArray", id))
  /\ Commit(request,
       IF id = BadId
         THEN FailDetails(Same, 500, "Error deleting integer array", CastErrorMessage)
       ELSE IF ~Found(Same, "IntArray", id) THEN Fail(Same, 404, "Integer array not found")
       ELSE DeleteRecord(cleaned, id, fault, "Error deleting integer array"))

(***************************************************************************)
(* Images: the upload middleware (config/s3.js, the images routers), the   *)
(* drafts of the image controller, routes/upload.js and models/Image.js.   *)
(***************************************************************************)
\* file.mimetype, as the client declares it for the extension of the file
MimeType(name) ==
  IF ToLowerCase(ExtName(name)) = ".png" THEN "image/png" ELSE "image/gif"

\* req.file is undefined when the request carries no file
NoReqFile == [originalname |-> Undefined, size |-> 0, mimetype |-> Undefined,
              key |-> Undefined, location |-> Undefined, bucket |-> Undefined,
              filename |-> Undefined, path |-> Undefined]

\* the key the multer-s3 storage generates for the field 'photo'
PhotoKey(name) == "images/file_" \o UniqueSuffix \o ToLowerCase(ExtName(name))

\* upload.single('photo') of config/s3.js: the file filter accepts every
\* file and multer-s3 puts it into the bucket; err is the error handed to
\* next(err), "" if none
uploadS3(file, fault) ==
  LET key == PhotoKey(file.name)
  IN  IF file = NoFile THEN [st |-> Same, file |-> NoReqFile, err |-> ""]
      ELSE IF fault = "bytes" THEN [st |-> Same, file |-> NoReqFile, err |-> "S3 upload failed"]
      ELSE [st   |-> PutObject(Same, key, file.content),
            file |-> [NoReqFile EXCEPT !.originalname = file.name,
                                       !.size = Len(file.content),
                                       !.mimetype = MimeType(file.name),
                                       !.key = key, !.location = S3Url(key),
                                       !.bucket = S3_BUCKET_NAME],
            err  |-> ""]

\* a disk storage that creates uploads/ before it looks for a file
uploadDiskEager(file, fault) ==
  [st |-> ensureUploadsDir(Same), file |-> NoReqFile,
   err |-> IF file = NoFile THEN "" ELSE "write failed"]

\* upload.single('photo') of the images router with multer.diskStorage: the
\* file filter on the MIME type, then uploads/photo_<uniqueSuffix><extension>
uploadDisk(file, fault) ==
  LET filename == "photo_" \o UniqueSuffix \o ExtName(file.name)
      filePath == PathJoin("uploads", filename)
  IN  IF file = NoFile THEN [st |-> Same, file |-> NoReqFile, err |-> ""]
      ELSE IF MimeType(file.name) \notin {"image/jpeg", "image/png", "image/jpg"}
        THEN [st |-> Same, file |-> NoReqFile,
              err |-> "Only .jpeg, .jpg and .png format allowed!"]
      ELSE IF fault = "bytes"
        THEN [st |-> ensureUploadsDir(Same), file |-> NoReqFile, err |-> "write failed"]
      ELSE [st   |-> WriteFile(ensureUploadsDir(Same), filePath, file.content),
            file |-> [NoReqFile EXCEPT !.originalname = file.name,
                                       !.size = Len(file.content),
                                       !.mimetype = MimeType(file.name),
                                       !.filename = filename, !.path = filePath],
            err  |-> ""]

\* the upload middleware the images router puts in front of addImage
Route == IF controller = "images-disk" THEN "disk" ELSE "s3"

Upload(file, fault) ==
  IF Route = "s3" THEN uploadS3(file, fault) ELSE uploadDisk(file, fault)

\* new Image(imageData) on the second imageSchema: strict, metadata keeps
\* size, mimeType, bucket and storagePath
ImageDoc(imageData) ==
  [kind         |-> "Image",
   originalName |-> imageData.originalName,
   fileName     |-> imageData.fileName,
   fileUrl      |-> imageData.fileUrl,
   filePath     |-> imageData.filePath,
   storageType  |-> imageData.storageType,
   metadata     |-> [size |-> imageData.metadata.size,
                     mimeType |-> imageData.metadata.mimeType,
                     bucket |-> imageData.metadata.bucket,
                     storagePath |-> imageData.metadata.storagePath]]

\* validation on save: required paths and enum of the second imageSchema
ImageValid(doc) ==
  /\ doc.originalName # Undefined
  /\ doc.fileName # Undefined
  /\ doc.fileUrl # Undefined
  /\ doc.storageType \in {"s3", "local"}

\* what the handlers build before new Image(...); storageType takes the
\* schema default 's3' when the handler sets none
ImageData(file) ==
  [originalName |-> file.originalname, fileName |-> Undefined,
   fileUrl |-> Undefined, filePath |-> Undefined, storageType |-> "s3",
   metadata |-> [size |-> file.size, mimeType |-> file.mimetype,
                 bucket |-> Undefined, storagePath |-> Undefined]]

\* fs.rename(oldPath, newPath)
Rename(st, oldPath, newPath) ==
  [st EXCEPT !.disk = (newPath :> st.disk[oldPath]) @@ Remove(@, oldPath),
             !.log.wrote = newPath]

\* the catch of the addImage drafts: 400 for a ValidationError, else 500
AddImageError(st, validation) ==
  FailStack([st EXCEPT !.log.saveFailed = TRUE], IF validation THEN 400 ELSE 500,
            IF NODE_ENV = "development"
              THEN IF validation THEN "Image validation failed" ELSE ErrorMessage("store")
            ELSE "An error occurred while uploading the image")

\* addImage of the multi-backend draft, behind either upload middleware
addImage(file, storageType, fault) ==
  LET request  == [NoReq EXCEPT !.op = "addImage", !.file = file, !.route = Route,
                     !.storageType = storageType, !.fault = fault]
      up       == Upload(file, fault)
      f        == up.file
      base     == [ImageData(f) EXCEPT !.fileName = f.originalname,
                                       !.storageType = storageType]
      filePath == LocalPath(file.name)
      \* after the 201 the handler goes on: newImage.save() once more, which
      \* resolves, then a second res.status(201).json, which throws because the
      \* headers are sent, then the res.status(statusCode).json of the catch,
      \* which throws for the same reason; the client has the first 201
      persist(st, data) ==
        IF ~ImageValid(ImageDoc(data)) THEN AddImageError(st, TRUE)
        ELSE IF fault = "store" THEN AddImageError(st, FALSE)
        ELSE [Created(Save(st, ImageDoc(data), file.content), NewId)
                EXCEPT !.log.saves = @ + 1, !.log.sends = @ + 2]
  IN
  /\ controller \in {"images", "images-disk"}
  /\ uploads < MaxUploads
  /\ Faulty(fault, file # NoFile)
  /\ Commit(request,
       IF up.err # "" THEN ErrorMiddleware(up.st, up.err)
       ELSE IF file = NoFile THEN Fail(up.st, 400, "No file uploaded")
       ELSE IF storageType = "s3" THEN
         persist(up.st, [base EXCEPT !.fileUrl = f.location,
                                     !.metadata.bucket = S3_BUCKET_NAME,
                                     !.metadata.storagePath = f.key])
       \* fs.rename(req.file.path, fullPath) throws when multer-s3 left no path
       ELSE IF f.path = Undefined
         THEN FailStack(ensureUploadsDir(up.st), 500,
                        IF NODE_ENV = "development" THEN "path must be a string"
                        ELSE "An error occurred while uploading the image")
       ELSE persist(Rename(ensureUploadsDir(up.st), f.path, filePath),
                    [base EXCEPT !.filePath = filePath,
                                 !.fileUrl = Host \o "/" \o filePath,
                                 !.metadata.storagePath = filePath]))

getImageById(id, fault) ==
  LET request == [NoReq EXCEPT !.op = "getImageById", !.id = id, !.fault = fault]
  IN
  /\ controller \in {"images", "images-disk"}
  /\ Faulty(fault, Found(Same, "Image", id))
  /\ Commit(request,
       IF id = BadId THEN Fail(Same, 400, "Invalid image ID format")
       ELSE IF ~Found(Same, "Image", id) THEN Fail(Same, 404, "Image not found")
       ELSE Retrieve(Same, db[id], fault,
                     "Error retrieving image from storage",
                     "Image file not found",
                     "Image not available in storage"))

\* image.filePath of a document whose schema may not have the path
LocalPathOf(doc) == IF "filePath" \in DOMAIN doc THEN doc.filePath ELSE Undefined

\* path.basename(p)
BaseName(p) == SubSeq(p, LastIndexOf(p, "/") + 1, Len(p))

\* getImagePath, the same in every draft: path.join(__dirname, '..',
\* image.filePath) throws a TypeError on a record without filePath, which
\* the catch answers with 500; a missing file is answered 404
getImagePath(id) ==
  LET request  == [NoReq EXCEPT !.op = "getImagePath", !.id = id, !.fault = "none"]
      filePath == LocalPathOf(db[id])
  IN
  /\ controller \in {"images", "images-disk"}
  /\ Commit(request,
       IF id = BadId THEN Fail(Same, 400, "Invalid image ID format.")
       ELSE IF ~Found(Same, "Image", id) THEN Fail(Same, 404, "Image not found.")
       ELSE IF filePath = Undefined
         THEN Fail(Same, 500, "An error occurred while retrieving the image path.")
       ELSE IF filePath \notin DOMAIN disk THEN Fail(Same, 404, "File not found on server.")
       ELSE [Same EXCEPT !.log.sends = @ + 1,
                         !.resp = [NoResp EXCEPT !.status = 200,
                                                 !.imagePath = filePath,
                                                 !.publicUrl = "/uploads/" \o BaseName(filePath)]])

deleteImage(id, fault) ==
  LET request == [NoReq EXCEPT !.op = "deleteImage", !.id = id, !.fault = fault]
  IN
  /\ controller \in {"images", "images-disk"}
  /\ Faulty(fault, Found(Same, "Image", id))
  /\ Commit(request,
       IF id = BadId
         THEN FailDetails(Same, 500, "An error occurred while deleting the image",
                          CastErrorMessage)
       ELSE IF ~Found(Same, "Image", id) THEN Fail(Same, 404, "Image not found")
       ELSE DeleteRecord(DeleteBytes(Same, db[id], fault), id, fault,
                         "An error occurred while deleting the image"))

\* the faults of an upload through the disk-only draft: also the unlink of
\* its catch may fail
DiskUploadFaults == UploadFaults \cup {"rollback"}

\* the catch of the disk-only addImage: fs.unlink(req.file.path, callback)
\* whose error is only logged, then the error response
AddImageDiskError(st, filePath, fault, validation) ==
  AddImageError([st EXCEPT !.disk = IF fault = "rollback" THEN @ ELSE Remove(@, filePath),
                           !.log.rollback = TRUE],
                validation)

\* addImage of controllers/imageController.js (disk only), behind the disk
\* storage of the images router
addImageDisk(file, fault) ==
  LET request == [NoReq EXCEPT !.op = "addImageDisk", !.file = file,
                    !.route = "disk", !.fault = fault]
      up      == uploadDisk(file, fault)
      f       == up.file
      doc     == ImageDoc([ImageData(f) EXCEPT !.fileName = f.filename,
                                               !.filePath = f.path])
  IN
  /\ controller = "images-disk"
  /\ uploads < MaxUploads
  /\ Faulty(fault, file # NoFile)
  /\ Commit(request,
       IF up.err # "" THEN ErrorMiddleware(up.st, up.err)
       ELSE IF file = NoFile THEN Fail(up.st, 400, "No file uploaded")
       ELSE IF ~ImageValid(doc) THEN AddImageDiskError(up.st, f.path, fault, TRUE)
       ELSE IF fault = "store" THEN AddImageDiskError(up.st, f.path, fault, FALSE)
       ELSE Created(Save(up.st, doc, file.content), NewId))

\* deleteImage of controllers/imageController.js: the record goes first,
\* then fs.existsSync / fs.unlinkSync of its filePath inside the same try
\* (the Turkish messages are written without their diacritics)
deleteImageDisk(id, fault) ==
  LET request == [NoReq EXCEPT !.op = "deleteImageDisk", !.id = id, !.fault = fault]
      error   == "Silme islemi sirasinda bir hata olustu"
      removed == findByIdAndDelete(Same, id)
      imagePath == db[id].filePath
  IN
  /\ controller = "images-disk"
  /\ Faulty(fault, Found(Same, "Image", id))
  /\ Commit(request,
       IF id = BadId \/ fault = "store" THEN Fail(Same, 500, error)
       ELSE IF ~Found(Same, "Image", id) THEN Fail(Same, 404, "Resim bulunamadi")
       ELSE IF imagePath \notin DOMAIN disk
         THEN Ok([removed EXCEPT !.deleted = @ \cup {id}])
       ELSE IF fault = "bytes"
         THEN Fail([removed EXCEPT !.log.byteDelete = "failed"], 500, error)
       ELSE Ok([removed EXCEPT !.disk = Remove(@, imagePath),
                               !.log.byteDelete = "ok",
                               !.deleted = @ \cup {id}]))

\* new Image(...) on the first imageSchema: originalName, fileUrl and a
\* metadata object that is kept as given; other paths are dropped
ImageDoc1(imageData) ==
  [kind         |-> "Image",
   originalName |-> imageData.originalName,
   fileUrl      |-> imageData.fileUrl,
   metadata     |-> imageData.metadata]

\* validation on save: required paths of the first imageSchema
ImageValid1(doc) ==
  /\ doc.originalName # Undefined
  /\ doc.fileUrl # Undefined

\* POST /api/upload of routes/upload.js: upload.single('photo') called with
\* a callback that answers a middleware error itself
upload(file, fault) ==
  LET request == [NoReq EXCEPT !.op = "upload", !.file = file, !.route = "s3",
                    !.fault = fault]
      up      == uploadS3(file, fault)
      f       == up.file
      doc     == ImageDoc1([originalName |-> f.originalname, fileUrl |-> f.location,
                            metadata |-> [size |-> f.size, mimeType |-> f.mimetype]])
  IN
  /\ controller = "upload"
  /\ uploads < MaxUploads
  /\ Faulty(fault, file # NoFile)
  /\ Commit(request,
       IF up.err # "" THEN Fail(up.st, 400, up.err)
       ELSE IF file = NoFile
         \* details: { receivedFiles, receivedFile, body, headers }
         THEN FailDetails(up.st, 400, "No file uploaded or invalid file type",
                          "receivedFile: false")
       ELSE IF fault = "store" \/ ~ImageValid1(doc)
         THEN FailDetails([up.st EXCEPT !.log.saveFailed = TRUE], 500, "Internal server error",
                          IF NODE_ENV = "development" THEN ErrorMessage("store")
                          ELSE Undefined)
       ELSE Created(Save(up.st, doc, file.content), NewId))

\* addImage of the S3 draft, behind multer-s3: the URL goes to filePath and
\* no fileUrl is set
addImageS3(file, fault) ==
  LET request == [NoReq EXCEPT !.op = "addImageS3", !.file = file, !.route = "s3",
                    !.fault = fault]
      up      == uploadS3(file, fault)
      f       == up.file
      doc     == ImageDoc1([originalName |-> f.originalname, fileUrl |-> Undefined,
                            metadata |-> [size |-> f.size, mimeType |-> f.mimetype,
                                          storage |-> "s3", bucket |-> f.bucket]])
  IN
  /\ controller = "upload"
  /\ uploads < MaxUploads
  /\ Faulty(fault, file # NoFile)
  /\ Commit(request,
       IF up.err # "" THEN ErrorMiddleware(up.st, up.err)
       ELSE IF file = NoFile THEN Fail(up.st, 400, "No file uploaded")
       ELSE IF ~ImageValid1(doc) THEN AddImageError(up.st, TRUE)
       ELSE IF fault = "store" THEN AddImageError(up.st, FALSE)
       ELSE Created(Save(up.st, doc, file.content), NewId))

\* res.redirect(url)
Redirect(st, url) ==
  [st EXCEPT !.log.sends = @ + 1,
             !.resp = [NoResp EXCEPT !.status = 302, !.bytes = url]]

\* getImageById of the S3 draft: a fileUrl at amazonaws.com is fetched from
\* S3 and a failure of that is only logged; then filePath is tried, as a
\* redirect when it is a URL and as a local file otherwise
getImageByIdS3(id, fault) ==
  LET request == [NoReq EXCEPT !.op = "getImageByIdS3", !.id = id, !.fault = fault]
      image   == db[id]
      key     == UrlKey(image.fileUrl)
      remote  == image.fileUrl # Undefined /\ Includes(image.fileUrl, "amazonaws.com")
      fetched == IF remote THEN GetObject(Same, key, fault) ELSE Same
      filePath == LocalPathOf(image)
  IN
  /\ controller = "upload"
  /\ Faulty(fault, Found(Same, "Image", id))
  /\ Commit(request,
       IF id = BadId THEN Fail(Same, 400, "Invalid image ID format.")
       ELSE IF ~Found(Same, "Image", id) THEN Fail(Same, 404, "Image not found.")
       ELSE IF fetched.log.fetch = "ok" THEN Sent(fetched, s3[key])
       ELSE IF filePath # Undefined /\ StartsWith(filePath, "http")
         THEN Redirect(fetched, filePath)
       ELSE IF filePath # Undefined /\ filePath \in DOMAIN disk
         THEN Sent(fetched, disk[filePath])
       ELSE Fail(fetched, 404, "Image not available in storage"))

\* deleteImage of the S3 draft: DeleteObject with Key image.fileName when
\* metadata.storage is 's3', its failure caught; then the record
deleteImageS3(id, fault) ==
  LET request == [NoReq EXCEPT !.op = "deleteImageS3", !.id = id, !.fault = fault]
      image   == db[id]
      inS3    == "storage" \in DOMAIN image.metadata /\ image.metadata.storage = "s3"
      cleaned ==
        IF ~inS3 THEN Same
        ELSE IF fault = "bytes" \/ "fileName" \notin DOMAIN image
          THEN [Same EXCEPT !.log.byteDelete = "failed"]
        ELSE [DeleteObject(Same, image.fileName) EXCEPT !.log.byteDelete = "ok"]
  IN
  /\ controller = "upload"
  /\ Faulty(fault, Found(Same, "Image", id))
  /\ Commit(request,
       IF id = BadId THEN Fail(Same, 500, "An error occurred while deleting the image")
       ELSE IF ~Found(Same, "Image", id) THEN Fail(Same, 404, "Image not found")
       \* the catch of this draft answers without details
       ELSE IF fault = "store"
         THEN Fail([cleaned EXCEPT !.uploaded = Remove(@, id)], 500,
                   "An error occurred while deleting the image")
       ELSE DeleteRecord(cleaned, id, fault, "An error occurred while deleting the image"))

Next ==
  \/ Tick
  \/ EndRequest
  \/ \E file \in MeshFiles, storageType \in StorageTypes, fault \in UploadFaults :
       create3DModel(file, storageType, fault)
  \/ \E id \in ReqIds, fault \in GetFaults : get3DModel(id, fault)
  \/ \E id \in ReqIds, fault \in DeleteFaults : delete3DModel(id, fault)
  \/ \E file \in MeshFiles, storageType \in StorageTypes, fault \in UploadFaults :
       createObjFile(file, storageType, fault)
  \/ \E id \in ReqIds, fault \in GetFaults : getObjFile(id, fault)
  \/ \E id \in ReqIds, fault \in DeleteFaults : deleteObjFile(id, fault)
  \/ \E data \in ArrayInputs, fault \in UploadFaults : createIntArray(data, fault)
  \/ \E id \in ReqIds : getIntArray(id)
  \/ \E id \in ReqIds, fault \in DeleteFaults : deleteIntArray(id, fault)
  \/ \E file \in ImageFiles, storageType \in StorageTypes, fault \in UploadFaults :
       addImage(file, storageType, fault)
  \/ \E id \in ReqIds, fault \in GetFaults : getImageById(id, fault)
  \/ \E id \in ReqIds, fault \in DeleteFaults : deleteImage(id, fault)
  \/ \E file \in ImageFiles, fault \in DiskUploadFaults : addImageDisk(file, fault)
  \/ \E id \in ReqIds, fault \in DeleteFaults : deleteImageDisk(id, fault)
  \/ \E file \in ImageFiles, fault \in UploadFaults : upload(file, fault)
  \/ \E file \in ImageFiles, fault \in UploadFaults : addImageS3(file, fault)
  \/ \E id \in ReqIds, fault \in GetFaults : getImageByIdS3(id, fault)
  \/ \E id \in ReqIds : getImagePath(id)
  \/ \E id \in ReqIds, fault \in DeleteFaults : deleteImageS3(id, fault)

Spec == Init /\ [][Next]_vars

(***************************************************************************)
(* Retrieval over a collection that already holds a remote record, written *)
(* by another writer of the same collection: the schemas constrain neither *)
(* the host of fileUrl nor the presence of metadata.storagePath.           *)
(***************************************************************************)
StoredKey == "3d-models/a.obj"

\* fileUrl of the stored record: of the bucket, of the bucket without a
\* path, of another host
StoredUrls == {S3Url(StoredKey),
               "https://" \o S3_BUCKET_NAME \o ".s3." \o AWS_REGION \o ".amazonaws.com",
               "https://cdn.example.com/" \o StoredKey}

\* the stored record of the collection of a controller; only the image
\* schema has metadata.storagePath
StoredDocs(c) ==
  IF c = "3dmodels" THEN
    {ThreeDModelDoc([fileName |-> "a.obj", storageType |-> "s3", format |-> "obj",
                     fileUrl |-> url, filePath |-> Undefined,
                     metadata |-> [size |-> Len(Triangle)]]) : url \in StoredUrls}
  ELSE IF c = "objfiles" THEN
    {ObjFileDoc([fileName |-> "a.obj", storageType |-> "s3",
                 fileUrl |-> url, filePath |-> Undefined,
                 metadata |-> [size |-> Len(Triangle), verticesCount |-> 3,
                               facesCount |-> 1]]) : url \in StoredUrls}
  ELSE
    {ImageDoc([originalName |-> "a.png", fileName |-> "a.png", fileUrl |-> url,
               filePath |-> Undefined, storageType |-> "s3",
               metadata |-> [size |-> Len(Triangle), mimeType |-> "image/png",
                             bucket |-> Undefined, storagePath |-> storagePath]]) :
       url \in StoredUrls, storagePath \in {Undefined, StoredKey}}

InitStored ==
  /\ controller \in {"3dmodels", "objfiles", "images", "images-disk"}
  /\ \E doc \in StoredDocs(controller) : db = (1 :> doc)
  /\ uploads = 1
  /\ s3 \in {<<>>, (StoredKey :> Triangle)}
  /\ disk = <<>>
  /\ uploadsDir = FALSE
  /\ now = 0
  /\ uploaded = <<>>
  /\ deleted = {}
  /\ req = NoReq
  /\ resp = NoResp
  /\ log = NoLog
  /\ InitAux

NextStored ==
  \/ EndRequest
  \/ \E id \in ReqIds, fault \in GetFaults : get3DModel(id, fault)
  \/ \E id \in ReqIds, fault \in GetFaults : getObjFile(id, fault)
  \/ \E id \in ReqIds, fault \in GetFaults : getImageById(id, fault)

SpecStored == InitStored /\ [][NextStored]_vars

(***************************************************************************)
(* The list handlers, over a collection of up to MaxDocs records.          *)
(***************************************************************************)
\* req.query.page and req.query.limit: omitted, or a decimal string
Pages  == {Undefined, "1", "2", "3"}
Limits == {Undefined, "1", "2"}

\* const { page = 1, limit = 10 } = req.query; parseInt(page, 10)
QueryInt(q, default) == IF q = Undefined THEN default ELSE DigitsVal(q, 0)

\* Math.ceil(a / b) for a >= 0, b > 0
Ceil(a, b) == (a + b - 1) \div b

\* the _ids of a collection, sort: { createdAt: -1 }
Newest(st, kind) ==
  LET ids == {i \in DOMAIN st.db : st.db[i].kind = kind}
      n   == Cardinality(ids)
      \* the k-th newest is the id that has k - 1 ids above it
      kth(k) == CHOOSE i \in ids : Cardinality({j \in ids : j > i}) = k - 1
  IN  [k \in 1..n |-> kth(k)]

\* Model.paginate(query, { page, limit, sort }) of mongoose-paginate-v2:
\* skip (page - 1) * limit, take limit; totalDocs counts the matches and
\* totalPages is Math.ceil(totalDocs / limit) || 1
Paginate(st, kind, page, limit) ==
  LET all   == Newest(st, kind)
      count == Len(all)
      skip  == (page - 1) * limit
      pages == IF Ceil(count, limit) = 0 THEN 1 ELSE Ceil(count, limit)
  IN  [docs       |-> SubSeq(all, skip + 1, IF skip + limit < count THEN skip + limit ELSE count),
       totalDocs  |-> count,
       totalPages |-> pages]

\* res.json({ success: true, data: { <docs>, total, pages, page, limit } })
Listed(st, result) ==
  [st EXCEPT !.log.sends = @ + 1,
             !.resp = [NoResp EXCEPT !.status = 200, !.docs = result.docs,
                                     !.total = Num(result.totalDocs),
                                     !.pages = Num(result.totalPages)]]

\* getAll3DModels, getAllObjFiles, getAllIntArrays and getAllImages of the
\* multi-backend draft are the same handler over their collections
GetAll(op, kind, page, limit) ==
  LET request == [NoReq EXCEPT !.op = op, !.fault = "none", !.page = page, !.limit = limit]
  IN  Commit(request, Listed(Same, Paginate(Same, kind, QueryInt(page, 1), QueryInt(limit, 10))))

getAll3DModels(page, limit) ==
  controller = "3dmodels" /\ GetAll("getAll3DModels", "3DModel", page, limit)

getAllObjFiles(page, limit) ==
  controller = "objfiles" /\ GetAll("getAllObjFiles", "ObjFile", page, limit)

getAllIntArrays(page, limit) ==
  controller = "intarrays" /\ GetAll("getAllIntArrays", "IntArray", page, limit)

getAllImages(page, limit) ==
  controller = "images" /\ GetAll("getAllImages", "Image", page, limit)

\* getAllImages of controllers/imageController.js: Image.find() and
\* res.json(images), whatever the query says
getAllImagesDisk(page, limit) ==
  LET request == [NoReq EXCEPT !.op = "getAllImagesDisk", !.fault = "none",
                               !.page = page, !.limit = limit]
  IN
  /\ controller = "images-disk"
  /\ Commit(request,
       [Same EXCEPT !.log.sends = @ + 1,
                    !.resp = [NoResp EXCEPT !.status = 200,
                                            !.docs = Newest(Same, "Image")]])

\* a record of the collection of a controller
ListDoc(c) ==
  IF c = "intarrays"
    THEN [kind |-> "IntArray", data |-> <<Num(1), Num(2)>>, fileUrl |-> S3Url(StoredKey),
          filePath |-> Undefined, storageType |-> "s3",
          metadata |-> [size |-> 2, storagePath |-> StoredKey, bucket |-> S3_BUCKET_NAME]]
  ELSE CHOOSE doc \in StoredDocs(c) :
         doc.fileUrl = S3Url(StoredKey) /\ StoragePathOf(doc) = Undefined

InitList ==
  /\ controller \in Controllers \ {"upload"}
  /\ \E n \in 0..MaxDocs : db = [i \in 1..n |-> ListDoc(controller)] /\ uploads = n
  /\ s3 = <<>>
  /\ disk = <<>>
  /\ uploadsDir = FALSE
  /\ now = 0
  /\ uploaded = <<>>
  /\ deleted = {}
  /\ req = NoReq
  /\ resp = NoResp
  /\ log = NoLog
  /\ InitAux

NextList ==
  \/ EndRequest
  \/ \E page \in Pages, limit \in Limits : getAll3DModels(page, limit)
  \/ \E page \in Pages, limit \in Limits : getAllObjFiles(page, limit)
  \/ \E page \in Pages, limit \in Limits : getAllIntArrays(page, limit)
  \/ \E page \in Pages, limit \in Limits : getAllImages(page, limit)
  \/ \E page \in Pages, limit \in Limits : getAllImagesDisk(page, limit)

SpecList == InitList /\ [][NextList]_vars

(***************************************************************************)
(* The extractors on their own, over OBJ texts of up to MaxLines lines.    *)
(***************************************************************************)
\* lines of an OBJ text: vertices, a vertex with a non-numeric component,
\* one with two components, a face, a texture coordinate, a comment, a
\* blank line
ObjLines == {"v 0 0 0", "v 1 -2 3", "v 1 x 3", "v 1 2", "f 1 2 3", "vt 0 1", "# c", ""}

RECURSIVE Join(_, _)
Join(lines, sep) ==
  IF lines = <<>> THEN ""
  ELSE IF Len(lines) = 1 THEN lines[1]
  ELSE lines[1] \o sep \o Join(Tail(lines), sep)

ObjTexts ==
  {Join(lines, "\n") : lines \in UNION {[1..n -> ObjLines] : n \in 0..MaxLines}}

PreParse ==
  /\ parsed = NoParsed
  /\ UNCHANGED <<controller, db, uploads, s3, disk, uploadsDir, now, uploaded,
                 deleted, req, resp, log, auth, procs, locators>>

\* await parse3DModel(filePath, 'obj') on a file with this content
Parse3DModel(content) ==
  /\ PreParse
  /\ parsed' = [fn |-> "parse3DModel", content |-> content, data |-> parse3DModel(content)]

\* await parseObjFile(filePath) on a file with this content
ParseObjFile(content) ==
  /\ PreParse
  /\ parsed' = [fn |-> "parseObjFile", content |-> content, data |-> parseObjFile(content)]

\* the extractor has returned
Returned ==
  /\ parsed # NoParsed
  /\ parsed' = NoParsed
  /\ UNCHANGED <<controller, db, uploads, s3, disk, uploadsDir, now, uploaded,
                 deleted, req, resp, log, auth, procs, locators>>

InitParse ==
  /\ controller \in {"3dmodels", "objfiles"}
  /\ db = <<>>
  /\ uploads = 0
  /\ s3 = <<>>
  /\ disk = <<>>
  /\ uploadsDir = FALSE
  /\ now = 0
  /\ uploaded = <<>>
  /\ deleted = {}
  /\ req = NoReq
  /\ resp = NoResp
  /\ log = NoLog
  /\ InitAux

NextParse ==
  \/ \E content \in ObjTexts : Parse3DModel(content)
  \/ \E content \in ObjTexts : ParseObjFile(content)
  \/ Returned

SpecParse == InitParse /\ [][NextParse]_vars

(***************************************************************************)
(* The auth routes: routes/auth.js, middleware protect, controllers/auth.js *)
(* and the BlacklistToken model.  Requests interleave at their awaits.     *)
(* Date.now() is counted in half seconds, so that Math.floor(now / 1000)   *)
(* rounds; a token is what jwt.verify decodes from it: { id, exp }.        *)
(***************************************************************************)
Users    == {1, 2}
Slots    == {1, 2}
TokenExp == 2                                  \* decoded.exp, seconds
JwtTokens == {[id |-> u, exp |-> TokenExp] : u \in Users}
AuthOps  == {"getMe", "logout", "deleteUser"}

\* Math.floor(Date.now() / 1000)
Seconds(t) == t \div 2

\* jwt.verify(token, secret) throws TokenExpiredError from exp on
Expired(token, t) == Seconds(t) >= token.exp

NoProc == [op |-> "", token |-> [id |-> 0, exp |-> 0], pc |-> "idle", status |-> 0,
           error |-> "", afterLogout |-> FALSE, afterDelete |-> FALSE]

\* a blacklist entry that is due at once
ExpiresAtOnce(t, expiresIn) == t

\* blacklistToken: new Date(Date.now() + expiresIn * 1000)
ExpiresAt(t, expiresIn) == t + expiresIn * 2

\* a lookup that finds every user
FindUserAlways(users, id) == TRUE

\* User.findById(id) finds a document
FindUser(users, id) == id \in users

AuthStep(r, proc, a) ==
  /\ procs' = [procs EXCEPT ![r] = proc]
  /\ auth' = a
  /\ UNCHANGED <<controller, db, uploads, s3, disk, uploadsDir, now, uploaded,
                 deleted, req, resp, log, parsed, locators>>

\* the answer of a step: res.status(status).json({ success: false, error })
\* or next(new ErrorResponse(error, status)) through the error middleware
Answer(proc, status, error) ==
  [proc EXCEPT !.pc = "done", !.status = status, !.error = error]

\* a request arrives at a protected route with a token in its Authorization
\* header; protect awaits isTokenBlacklisted
Arrive(r, op, token) ==
  /\ procs[r].pc = "idle"
  /\ AuthStep(r, [NoProc EXCEPT !.op = op, !.token = token, !.pc = "isTokenBlacklisted",
                                !.afterLogout = (token \in auth.loggedOut),
                                !.afterDelete = (token.id \in auth.removed)], auth)

\* protect: BlacklistToken.findOne({ token }) has resolved, then jwt.verify,
\* then the await of User.findById
isTokenBlacklisted(r) ==
  LET proc == procs[r]
  IN
  /\ proc.pc = "isTokenBlacklisted"
  /\ AuthStep(r,
       IF proc.token \in DOMAIN auth.blacklist
         THEN Answer(proc, 401, "Session expired. Please log in again.")
       ELSE IF Expired(proc.token, now) THEN Answer(proc, 401, "Token has expired")
       ELSE [proc EXCEPT !.pc = "findById"], auth)

\* protect: User.findById(decoded.id) has resolved; next() enters the handler
\* up to its first await
findById(r) ==
  LET proc == procs[r]
  IN
  /\ proc.pc = "findById"
  /\ AuthStep(r,
       IF ~FindUser(auth.users, proc.token.id)
         THEN Answer(proc, 401, "The user belonging to this token no longer exists.")
       ELSE [proc EXCEPT !.pc = proc.op], auth)

\* getMe: User.findById(req.user.id) has resolved
getMe(r) ==
  LET proc == procs[r]
  IN
  /\ proc.pc = "getMe"
  /\ AuthStep(r,
       IF ~FindUser(auth.users, proc.token.id) THEN Answer(proc, 404, "User not found")
       ELSE Answer(proc, 200, ""), auth)

\* logout: expiresIn = decoded.exp - Math.floor(Date.now() / 1000), then
\* BlacklistToken.create({ token, expiresAt }) on the unique index of token;
\* a duplicate key error goes to the catch
logout(r) ==
  LET proc      == procs[r]
      expiresIn == proc.token.exp - Seconds(now)
  IN
  /\ proc.pc = "logout"
  /\ IF proc.token \in DOMAIN auth.blacklist
       THEN AuthStep(r, Answer(proc, 500, "Error during logout"), auth)
     ELSE AuthStep(r, Answer(proc, 200, ""),
            [auth EXCEPT !.blacklist = (proc.token :> ExpiresAt(now, expiresIn)) @@ @,
                         !.loggedOut = @ \cup {proc.token}])

\* deleteUser: User.findByIdAndDelete(req.user.id) has resolved
deleteUser(r) ==
  LET proc == procs[r]
  IN
  /\ proc.pc = "deleteUser"
  /\ IF ~FindUser(auth.users, proc.token.id)
       THEN AuthStep(r, Answer(proc, 404, "User not found"), auth)
     ELSE AuthStep(r, Answer(proc, 200, ""),
            [auth EXCEPT !.users = @ \ {proc.token.id},
                         !.removed = @ \cup {proc.token.id}])

\* the response has gone out
Respond(r) ==
  /\ procs[r].pc = "done"
  /\ AuthStep(r, NoProc, auth)

\* the TTL index { expires: 0 } on expiresAt: MongoDB removes the entry at
\* some time from expiresAt on
ExpireToken(token) ==
  /\ token \in DOMAIN auth.blacklist
  /\ auth.blacklist[token] <= now
  /\ auth' = [auth EXCEPT !.blacklist = Remove(@, token)]
  /\ UNCHANGED <<controller, db, uploads, s3, disk, uploadsDir, now, uploaded,
                 deleted, req, resp, log, parsed, procs, locators>>

\* time passes
AuthTick ==
  /\ now < MaxClock
  /\ now' = now + 1
  /\ UNCHANGED <<controller, db, uploads, s3, disk, uploadsDir, uploaded,
                 deleted, req, resp, log, aux>>

InitAuth ==
  /\ controller = "auth"
  /\ db = <<>>
  /\ uploads = 0
  /\ s3 = <<>>
  /\ disk = <<>>
  /\ uploadsDir = FALSE
  /\ now = 0
  /\ uploaded = <<>>
  /\ deleted = {}
  /\ req = NoReq
  /\ resp = NoResp
  /\ log = NoLog
  /\ parsed = NoParsed
  /\ auth = [NoAuth EXCEPT !.users = Users]
  /\ procs = [r \in Slots |-> NoProc]
  /\ locators = <<>>

NextAuth ==
  \/ AuthTick
  \/ \E r \in Slots, op \in AuthOps, token \in JwtTokens : Arrive(r, op, token)
  \/ \E r \in Slots : isTokenBlacklisted(r)
  \/ \E r \in Slots : findById(r)
  \/ \E r \in Slots : getMe(r)
  \/ \E r \in Slots : logout(r)
  \/ \E r \in Slots : deleteUser(r)
  \/ \E r \in Slots : Respond(r)
  \/ \E token \in JwtTokens : ExpireToken(token)

SpecAuth == InitAuth /\ [][NextAuth]_vars

(***************************************************************************)
(* Requests in flight together.  A handler is an async function: it runs   *)
(* to its next await, and other requests run while it waits.  Each slot of *)
(* procs is one request of the 3D model, OBJ file or integer array         *)
(* controller, pc is the await it has reached.                             *)
(***************************************************************************)
RaceControllers == {"3dmodels", "objfiles", "intarrays"}
RaceSlots == {1, 2}
RaceOps == {"upload", "delete"}

\* the record the requests are about, as an upload of the controller left
\* it, with an older file name than that of any upload to come
RaceId   == 1
RaceKey  == "3d-models/file_0-1.obj"
RacePath == "uploads/0-a.obj"
RaceDocs(c) ==
  IF c = "3dmodels" THEN
    {ThreeDModelDoc([fileName |-> "a.obj", storageType |-> "s3", format |-> "obj",
                     fileUrl |-> S3Url(RaceKey), filePath |-> Undefined,
                     metadata |-> [size |-> Len(Triangle)]])}
  ELSE IF c = "objfiles" THEN
    {ObjFileDoc([fileName |-> "a.obj", storageType |-> "s3",
                 fileUrl |-> S3Url(RaceKey), filePath |-> Undefined,
                 metadata |-> [size |-> Len(Triangle), verticesCount |-> 3,
                               facesCount |-> 1]]),
     ObjFileDoc([fileName |-> "a.obj", storageType |-> "local",
                 fileUrl |-> Host \o "/" \o RacePath, filePath |-> RacePath,
                 metadata |-> [size |-> Len(Triangle), verticesCount |-> 3,
                               facesCount |-> 1]])}
  ELSE
    {[kind |-> "IntArray", data |-> <<Num(1), Num(2)>>, fileUrl |-> S3Url(RaceKey),
      filePath |-> Undefined, storageType |-> "s3",
      metadata |-> [size |-> 2, storagePath |-> RaceKey, bucket |-> S3_BUCKET_NAME]]}

RaceKind(c) ==
  IF c = "3dmodels" THEN "3DModel" ELSE IF c = "objfiles" THEN "ObjFile" ELSE "IntArray"

RaceNotFound(c) ==
  IF c = "3dmodels" THEN "3D model not found"
  ELSE IF c = "objfiles" THEN "OBJ file not found" ELSE "Integer array not found"

\* the answer of the catch that a failed fs.writeFile reaches
WriteFailed(c) ==
  IF c = "3dmodels" THEN "Failed to save file locally" ELSE "Failed to create OBJ file"

NoTask == [op |-> "", pc |-> "idle", id |-> 0, status |-> 0, error |-> "",
           doc |-> [kind |-> ""], existed |-> FALSE, filePath |-> "",
           details |-> ""]

TaskStep(r, task) ==
  /\ procs' = [procs EXCEPT ![r] = task]
  /\ UNCHANGED <<controller, now, uploaded, deleted, req, resp, log, parsed, auth,
                 locators>>

Answered(task, status, error) ==
  [task EXCEPT !.pc = "done", !.status = status, !.error = error]

\* a request reaches its handler; an upload takes the number of the request
RaceArrive(r, op) ==
  /\ procs[r].pc = "idle"
  /\ IF op = "upload"
       THEN /\ controller \in {"3dmodels", "objfiles"}
            /\ uploads < MaxUploads + 1
            /\ uploads' = uploads + 1
            /\ TaskStep(r, [NoTask EXCEPT !.op = op, !.id = uploads + 1,
                              !.pc = "ensureUploadsDir", !.filePath = LocalPath("a.obj")])
       ELSE /\ uploads' = uploads
            /\ TaskStep(r, [NoTask EXCEPT !.op = op, !.id = RaceId, !.pc = "findById",
                              !.existed = RaceId \in DOMAIN db])
  /\ UNCHANGED <<db, s3, disk, uploadsDir>>

\* const uploadsDir = await ensureUploadsDir()
RaceEnsureUploadsDir(r) ==
  /\ procs[r].pc = "ensureUploadsDir"
  /\ uploadsDir' = ensureUploadsDir(Same).uploadsDir
  /\ TaskStep(r, [procs[r] EXCEPT !.pc = "writeFile"])
  /\ UNCHANGED <<db, uploads, s3, disk>>

\* await fs.writeFile(fullPath, req.file.buffer): ENOENT when the directory
\* of the path is not there, which the catch around it answers
RaceWriteFile(r) ==
  /\ procs[r].pc = "writeFile"
  /\ IF uploadsDir
       THEN /\ disk' = WriteFile(Same, procs[r].filePath, Triangle).disk
            /\ TaskStep(r, [procs[r] EXCEPT !.pc = "save"])
       ELSE /\ disk' = disk
            /\ TaskStep(r, [Answered(procs[r], 500, WriteFailed(controller))
                              EXCEPT !.details = "ENOENT: no such file or directory"])
  /\ UNCHANGED <<db, uploads, s3, uploadsDir>>

\* what follows the write: createObjFile parses the file and saves the
\* document; create3DModel throws the ReferenceError of parse3DModel(fullPath)
RaceSave(r) ==
  LET task == procs[r]
      doc  == ObjFileDoc([fileName |-> "a.obj", storageType |-> "local",
                          fileUrl |-> Host \o "/" \o task.filePath,
                          filePath |-> task.filePath,
                          metadata |-> [size |-> Len(Triangle), verticesCount |-> 3,
                                        facesCount |-> 1]])
  IN
  /\ task.pc = "save"
  /\ IF controller = "objfiles"
       THEN /\ db' = (task.id :> doc) @@ db
            /\ TaskStep(r, Answered(task, 201, ""))
       ELSE /\ db' = db
            /\ TaskStep(r, [Answered(task, 500, "Failed to create 3D model")
                              EXCEPT !.details = "fullPath is not defined"])
  /\ UNCHANGED <<uploads, s3, disk, uploadsDir>>

\* const doc = await Model.findById(id): 404 when there is none, else on to
\* the branch of its storage type
RaceFindById(r) ==
  LET task == procs[r]
      doc  == db[task.id]
  IN
  /\ task.pc = "findById"
  /\ TaskStep(r,
       IF ~Found(Same, RaceKind(controller), task.id)
         THEN Answered(task, 404, RaceNotFound(controller))
       ELSE IF doc.storageType = "s3" /\ doc.fileUrl # Undefined
         THEN [task EXCEPT !.doc = doc, !.pc = "DeleteObject"]
       ELSE IF doc.storageType = "local" /\ doc.filePath # Undefined
         THEN [task EXCEPT !.doc = doc,
                 !.pc = IF doc.filePath \in DOMAIN disk THEN "unlink"
                        ELSE "findByIdAndDelete"]
       ELSE [task EXCEPT !.doc = doc, !.pc = "findByIdAndDelete"])
  /\ UNCHANGED <<db, uploads, s3, disk, uploadsDir>>

\* await s3.send(new DeleteObjectCommand(...)) with the key of the document
RaceDeleteObject(r) ==
  LET task == procs[r]
      key  == IF controller = "intarrays" THEN task.doc.metadata.storagePath
              ELSE ResolveKey(StoragePathOf(task.doc), task.doc.fileUrl)
  IN
  /\ task.pc = "DeleteObject"
  /\ s3' = IF key = "" \/ key = Undefined THEN s3 ELSE DeleteObject(Same, key).s3
  /\ TaskStep(r, [task EXCEPT !.pc = "findByIdAndDelete"])
  /\ UNCHANGED <<db, uploads, disk, uploadsDir>>

\* await fs.unlink(fullPath): of a file that is gone by now it throws, and
\* the catch of the branch goes on to the record
RaceUnlink(r) ==
  LET task == procs[r]
  IN
  /\ task.pc = "unlink"
  /\ disk' = Remove(disk, task.doc.filePath)
  /\ TaskStep(r, [task EXCEPT !.pc = IF task.doc.filePath \in DOMAIN disk
                                     THEN "rmdir" ELSE "findByIdAndDelete"])
  /\ UNCHANGED <<db, uploads, s3, uploadsDir>>

\* await fs.rmdir(path.dirname(fullPath)): removes uploads/ when it is empty
RaceRmdir(r) ==
  /\ procs[r].pc = "rmdir"
  /\ uploadsDir' = IF DOMAIN disk = {} THEN FALSE ELSE uploadsDir
  /\ TaskStep(r, [procs[r] EXCEPT !.pc = "findByIdAndDelete"])
  /\ UNCHANGED <<db, uploads, s3, disk>>

\* await Model.findByIdAndDelete(id), whose result is not looked at, then 200
RaceFindByIdAndDelete(r) ==
  /\ procs[r].pc = "findByIdAndDelete"
  /\ db' = findByIdAndDelete(Same, procs[r].id).db
  /\ TaskStep(r, Answered(procs[r], 200, ""))
  /\ UNCHANGED <<uploads, s3, disk, uploadsDir>>

\* the response is out; the slot takes the next request
RaceRespond(r) ==
  /\ procs[r].pc = "done"
  /\ TaskStep(r, NoTask)
  /\ UNCHANGED <<db, uploads, s3, disk, uploadsDir>>

InitRace ==
  /\ controller \in RaceControllers
  /\ \E doc \in RaceDocs(controller) :
       /\ db = (RaceId :> doc)
       /\ s3 = IF doc.storageType = "s3" THEN (RaceKey :> Triangle) ELSE <<>>
       /\ disk = IF doc.storageType = "local" THEN (RacePath :> Triangle) ELSE <<>>
       /\ uploadsDir = (doc.storageType = "local")
  /\ uploads = 1
  /\ now = 1
  /\ uploaded = <<>>
  /\ deleted = {}
  /\ req = NoReq
  /\ resp = NoResp
  /\ log = NoLog
  /\ parsed = NoParsed
  /\ auth = NoAuth
  /\ procs = [r \in RaceSlots |-> NoTask]
  /\ locators = <<>>

NextRace ==
  \/ \E r \in RaceSlots, op \in RaceOps : RaceArrive(r, op)
  \/ \E r \in RaceSlots : RaceEnsureUploadsDir(r)
  \/ \E r \in RaceSlots : RaceWriteFile(r)
  \/ \E r \in RaceSlots : RaceSave(r)
  \/ \E r \in RaceSlots : RaceFindById(r)
  \/ \E r \in RaceSlots : RaceDeleteObject(r)
  \/ \E r \in RaceSlots : RaceUnlink(r)
  \/ \E r \in RaceSlots : RaceRmdir(r)
  \/ \E r \in RaceSlots : RaceFindByIdAndDelete(r)
  \/ \E r \in RaceSlots : RaceRespond(r)

SpecRace == InitRace /\ [][NextRace]_vars

(***************************************************************************)
(* The properties.  They are read in the state in which a request has been *)
(* answered (req, resp and log are those of that request), or over the     *)
(* step in which a handler runs (Idle holds before it, req' is its         *)
(* request).                                                               *)
(***************************************************************************)
GetOps == {"get3DModel", "getObjFile", "getImageById"}

StorageAwareDeleteOps ==
  {"delete3DModel", "deleteObjFile", "deleteIntArray", "deleteImage", "deleteImageS3"}

DeleteOps == StorageAwareDeleteOps \cup {"deleteImageDisk"}

\* the uploads that carry a file
FileUploadOps == UploadOps \ {"createIntArray"}

BackendsUnchanged ==
  db' = db /\ s3' = s3 /\ disk' = disk /\ uploadsDir' = uploadsDir

\* C1: a GET, without backend failure, of an id whose upload was answered 201
\* and which no delete has touched is answered 200 with the uploaded bytes,
\* for remote and for local assets.
RoundTrip ==
  (req.op \in GetOps /\ req.fault = "none" /\ req.id \in DOMAIN uploaded)
    => (resp.status = 200 /\ resp.bytes = uploaded[req.id])

\* a GET of an untouched local OBJ file is answered 200 with other bytes
\* than were uploaded under that id
RoundTripBroken ==
  /\ req.op = "getObjFile" /\ req.fault = "none"
  /\ req.id \in DOMAIN uploaded
  /\ db[req.id].storageType = "local"
  /\ resp.status = 200 /\ resp.bytes # uploaded[req.id]

\* C2: once a delete of an id has been answered 200, every later delete of
\* that id is answered 404 and changes neither the record store nor a
\* storage backend.
DeleteTwice ==
  [][(Idle /\ req'.op \in DeleteOps /\ req'.id \in deleted)
       => (resp'.status = 404 /\ BackendsUnchanged)]_vars

SecondDelete ==
  req.op \in DeleteOps /\ req.id \in deleted /\ resp.status = 404

\* C3: in the storage-aware delete handlers, when the record exists and the
\* byte deletion (S3 DeleteObject or local unlink) fails, the record is still
\* removed and the response is 200.
ByteDeletionFailureSwallowed ==
  (req.op \in StorageAwareDeleteOps /\ log.byteDelete = "failed")
    => (resp.status = 200 /\ req.id \notin DOMAIN db)

LocalUnlinkFailedYetDeleted ==
  /\ req.op = "deleteObjFile" /\ req.fault = "bytes"
  /\ log.byteDelete = "failed"
  /\ resp.status = 200 /\ req.id \notin DOMAIN db
  /\ disk # <<>>

\* C4: in the disk-only deleteImage, when the record exists and removing its
\* file from disk fails, the record is removed and the response is 200.
DiskDeleteSucceedsAnyway ==
  (req.op = "deleteImageDisk" /\ log.byteDelete = "failed")
    => (resp.status = 200 /\ req.id \notin DOMAIN db)

DiskDeleteAnswers500 ==
  /\ req.op = "deleteImageDisk" /\ log.byteDelete = "failed"
  /\ resp.status = 500 /\ req.id \notin DOMAIN db

\* C5: an upload that is answered with a failure status (4xx or 5xx) leaves
\* no record of its own in the record store.
NoRecordOnFailure ==
  [][(Idle /\ req'.op \in UploadOps /\ resp'.status >= 400) => db' = db]_vars

FailedUploadAfterBytes ==
  /\ req.op \in UploadOps /\ resp.status >= 400
  /\ log.wrote # "" /\ log.saveFailed
  /\ uploads \notin DOMAIN db

\* C6: when persisting the record fails after the bytes were written to the
\* backend, the upload attempts to delete the bytes it wrote, and still
\* answers with the error.
RollbackAfterFailedSave ==
  (req.op \in UploadOps /\ log.wrote # "" /\ log.saveFailed)
    => (log.rollback /\ resp.status >= 400)

OrphanedBytes ==
  /\ req.op = "create3DModel" /\ log.saveFailed /\ ~log.rollback
  /\ log.wrote \in DOMAIN s3
  /\ resp.status = 500

\* C7: an upload request with no file attached is answered 400 with an error
\* that names the missing file, creates no record and writes no bytes.
NoFileUpload ==
  [][(Idle /\ req'.op \in FileUploadOps /\ req'.file = NoFile)
       => /\ resp'.status = 400
          /\ Includes(resp'.error, "No file uploaded")
          /\ BackendsUnchanged]_vars

NoFileRejected ==
  /\ req.op = "upload" /\ req.file = NoFile
  /\ resp.status = 400 /\ resp.error = "No file uploaded or invalid file type"

\* the geometry the Format Extractor derives from the bytes is in the record
HasGeometry(doc, content) ==
  LET modelData == parse3DModel(content)
  IN  /\ doc.metadata.verticesCount = Len(modelData.vertices)
      /\ doc.metadata.facesCount = Len(modelData.faces)
      /\ "boundingBox" \in DOMAIN doc.metadata
      /\ doc.metadata.boundingBox = modelData.boundingBox

\* C8: an OBJ upload to create3DModel with storageType local is answered 201
\* and its record carries the verticesCount, facesCount and boundingBox that
\* parse3DModel derives from the uploaded bytes.
LocalObjUploadParsed ==
  (/\ req.op = "create3DModel" /\ req.storageType = "local"
   /\ req.fault = "none" /\ ToLowerCase(ExtName(req.file.name)) = ".obj")
    => /\ resp.status = 201
       /\ resp.id \in DOMAIN db
       /\ HasGeometry(db[resp.id], req.file.content)

LocalObjUploadFails ==
  /\ req.op = "create3DModel" /\ req.storageType = "local" /\ req.fault = "none"
  /\ req.file = [name |-> "a.obj", content |-> Triangle]
  /\ resp.status = 500
  /\ log.wrote \in DOMAIN disk

\* records of one kind of mesh made from the same bytes
SameMesh(i, j) ==
  /\ db[i].kind \in {"ObjFile", "3DModel"}
  /\ db[i].kind = db[j].kind
  /\ uploaded[i] = uploaded[j]

\* C9: records persisted from the same OBJ bytes have the same verticesCount
\* and facesCount, whether the upload used storageType s3 or local.
GeometryConsistent ==
  \A i, j \in DOMAIN db \cap DOMAIN uploaded :
    SameMesh(i, j)
      => /\ db[i].metadata.verticesCount = db[j].metadata.verticesCount
         /\ db[i].metadata.facesCount = db[j].metadata.facesCount

GeometryDiffers ==
  \E i, j \in DOMAIN db \cap DOMAIN uploaded :
    /\ SameMesh(i, j)
    /\ db[i].storageType = "s3" /\ db[j].storageType = "local"
    /\ uploaded[i] = Triangle
    /\ db[i].metadata.verticesCount = 0 /\ db[j].metadata.verticesCount = 3
    /\ db[i].metadata.facesCount = 0 /\ db[j].metadata.facesCount = 1

\* C10: no two records have the same locator, so no upload overwrites the
\* bytes an existing record points to.
DistinctLocators ==
  \A i, j \in DOMAIN db : i # j => db[i].fileUrl # db[j].fileUrl

LocatorCollision ==
  \E i, j \in DOMAIN db \cap DOMAIN uploaded :
    /\ i # j
    /\ db[i].kind = "ObjFile" /\ db[j].kind = "ObjFile"
    /\ db[i].storageType = "local"
    /\ db[i].filePath = db[j].filePath
    /\ uploaded[i] # uploaded[j]
    /\ disk[db[i].filePath] = uploaded[j]


\* no bucket is recorded in the metadata of the document
NoBucket(doc) ==
  "bucket" \in DOMAIN doc.metadata => doc.metadata.bucket = Undefined

\* C11: every record has a storageType of {s3, local}; a local record has a
\* filePath and no bucket, a remote record has a key that resolves from
\* metadata.storagePath or fileUrl and no filePath.
LocatorInvariant ==
  \A id \in DOMAIN db :
    LET doc == db[id]
    IN  /\ "storageType" \in DOMAIN doc
        /\ doc.storageType \in {"s3", "local"}
        /\ doc.storageType = "local"
             => (LocalPathOf(doc) # Undefined /\ NoBucket(doc))
        /\ doc.storageType = "s3"
             => /\ ResolveKey(StoragePathOf(doc), doc.fileUrl) # ""
                /\ LocalPathOf(doc) = Undefined

\* POST /api/upload has stored a record without storageType
RecordWithoutStorageType ==
  /\ req.op = "upload" /\ resp.status = 201
  /\ resp.id \in DOMAIN db
  /\ "storageType" \notin DOMAIN db[resp.id]

GetByIdOps == GetOps \cup {"getIntArray"}

\* C12: a get by id answers 404 when no record has the id and 400 when the
\* id is malformed (CastError), never 500.
GetByIdStatus ==
  req.op \in GetByIdOps
    => /\ req.id = BadId => resp.status = 400
       /\ (req.id # BadId /\ req.id \notin DOMAIN db) => resp.status = 404

MalformedIdAnswered500 ==
  req.op = "getIntArray" /\ req.id = BadId /\ resp.status = 500

RetrievalOps == GetOps \cup {"getImageByIdS3"}

\* C13: when the fetch of a remote record from the backend fails, the
\* retrieval handler has made that one fetch attempt only and answers with
\* the retrieval error (500), not with a redirect, a file or another answer.
FetchFailureReported ==
  (req.op \in RetrievalOps /\ log.fetch = "failed")
    => (log.fetches = 1 /\ resp.status = 500)

FetchFailureSwallowed ==
  /\ req.op = "getImageByIdS3" /\ req.fault = "bytes"
  /\ log.fetch = "failed" /\ log.fetches = 1
  /\ resp.status = 404 /\ resp.error = "Image not available in storage"

\* the request is a retrieval of a local record whose file is not on disk
LocalFileMissing ==
  /\ req.op \in GetOps
  /\ req.id \in DOMAIN db
  /\ "storageType" \in DOMAIN db[req.id] /\ db[req.id].storageType = "local"
  /\ LocalPathOf(db[req.id]) # Undefined
  /\ LocalPathOf(db[req.id]) \notin DOMAIN disk

\* the error a retrieval handler answers when no record has the id
RecordNotFoundError(op) ==
  CASE op = "get3DModel" -> "3D model not found"
    [] op = "getObjFile" -> "OBJ file not found"
    [] op = "getImageById" -> "Image not found"

\* C14: a retrieval of a local record whose file is missing on disk is
\* answered 404 with an error that differs from the error of the same handler
\* for an id that no record has.
FileNotFoundDistinct ==
  LocalFileMissing =>
    (resp.status = 404 /\ resp.error # RecordNotFoundError(req.op))

FileNotFoundAsRecordNotFound ==
  /\ LocalFileMissing
  /\ req.op = "getObjFile"
  /\ resp.status = 404 /\ resp.error = "OBJ file not found"
  /\ resp.details = "File not found on server"

\* the record has neither metadata.storagePath nor a fileUrl a key can be
\* parsed from
Unresolvable(doc) ==
  /\ doc.storageType = "s3"
  /\ doc.fileUrl # Undefined
  /\ StoragePathOf(doc) \in {Undefined, ""}
  /\ (~Includes(doc.fileUrl, "amazonaws.com") \/ UrlKey(doc.fileUrl) = "")

\* the error a retrieval handler answers when the remote bytes cannot be had
RetrievalError(op) ==
  CASE op = "get3DModel" -> "Error retrieving 3D model from storage"
    [] op = "getObjFile" -> "Error retrieving OBJ file from storage"
    [] op = "getImageById" -> "Error retrieving image from storage"

ImagePathAnswered ==
  (req.op = "getImagePath" /\ req.id # BadId)
    => IF req.id \in DOMAIN db
       THEN resp.status = 200 /\ resp.imagePath # Undefined /\ resp.publicUrl # Undefined
       ELSE resp.status = 404

RemoteImagePathAnswered500 ==
  /\ req.op = "getImagePath" /\ req.id \in DOMAIN db
  /\ db[req.id].storageType = "s3"
  /\ resp.status = 500

\* the request carries a file of a type the file filter of its route refuses
DisallowedType(r) ==
  /\ r.file # NoFile
  /\ \/ r.op = "create3DModel" /\ ~FileFilter3D(r.file.name)
     \/ r.op = "createObjFile" /\ ~FileFilterObj(r.file.name)
     \/ /\ r.op \in {"addImage", "addImageDisk"} /\ r.route = "disk"
        /\ MimeType(r.file.name) \notin {"image/jpeg", "image/png", "image/jpg"}

\* C17: an upload of a file of a disallowed type to the 3D model route, the
\* OBJ route or the disk image route is answered 400, creates no record and
\* stores no bytes.
DisallowedTypeRejected ==
  [][(Idle /\ DisallowedType(req'))
       => (resp'.status = 400 /\ BackendsUnchanged)]_vars

DisallowedTypeAnswered500 ==
  /\ req.op = "create3DModel" /\ DisallowedType(req)
  /\ resp.status = 500
  /\ resp.error = "Invalid file type. Only 3D model files are allowed."
  /\ db = <<>> /\ s3 = <<>> /\ disk = <<>>

\* the bodies whose data is no array, is empty or has a non-integer element
InvalidArrays ==
  {d.json : d \in {x \in ArrayInputs :
     ~x.isArray \/ Len(x.items) = 0 \/ \E i \in 1..Len(x.items) : ~IsInteger(x.items[i])}}

\* C18: createIntArray answers 400 for data that is no array, is empty or
\* has a non-integer element, uploads no bytes and creates no record.
InvalidArrayRejected ==
  [][(Idle /\ req'.op = "createIntArray" /\ req'.file.content \in InvalidArrays)
       => (resp'.status = 400 /\ BackendsUnchanged)]_vars

NonIntegerArrayUploaded ==
  /\ req.op = "createIntArray" /\ req.file.content = "[1,1.5]" /\ req.fault = "none"
  /\ resp.status = 500
  /\ log.wrote \in DOMAIN s3 /\ s3[log.wrote] = "[1,1.5]"
  /\ db = <<>>

\* C19: outside development mode an error response carries neither a
\* details nor a stack field.
NoDetailsInProduction ==
  (NODE_ENV # "development" /\ resp.status >= 400)
    => (resp.details = Undefined /\ ~resp.stack)

DetailsInProduction ==
  /\ NODE_ENV # "development"
  /\ req.op = "create3DModel" /\ req.fault = "store"
  /\ resp.status = 500 /\ resp.details = ErrorMessage("store")

ListOps == {"getAll3DModels", "getAllObjFiles", "getAllIntArrays", "getAllImages",
            "getAllImagesDisk"}

Min(a, b) == IF a <= b THEN a ELSE b

\* C20: a list request with page p and limit l (1 and 10 when omitted) over
\* N records is answered with min(l, max(0, N - (p - 1) * l)) records,
\* total = N and pages = ceil(N / l).
PageOfList ==
  req.op \in ListOps =>
    LET p == QueryInt(req.page, 1)
        l == QueryInt(req.limit, 10)
        N == Cardinality(DOMAIN db)
        rest == IF N - (p - 1) * l > 0 THEN N - (p - 1) * l ELSE 0
    IN  /\ Len(resp.docs) = Min(l, rest)
        /\ resp.total = Num(N)
        /\ resp.pages = Num(Ceil(N, l))

WholeListReturned ==
  /\ req.op = "getAllImagesDisk" /\ req.page = "2" /\ req.limit = "1"
  /\ Cardinality(DOMAIN db) = 3
  /\ Len(resp.docs) = 3 /\ resp.total = UndefinedN

\* the lines of a text that start with a prefix: the places where the
\* prefix stands at the start of the text or right after a line feed
LinesStarting(content, prefix) ==
  Cardinality({i \in 1..Len(content) :
     /\ i + Len(prefix) - 1 <= Len(content)
     /\ SubSeq(content, i, i + Len(prefix) - 1) = prefix
     /\ (i = 1 \/ CharAt(content, i - 1) = "\n")})

\* C21: the extractors return as many vertices as the text has lines that
\* start with 'v ' and as many faces as it has lines that start with 'f '.
VertexAndFaceCount ==
  parsed # NoParsed =>
    /\ Len(parsed.data.vertices) = LinesStarting(parsed.content, "v ")
    /\ Len(parsed.data.faces) = LinesStarting(parsed.content, "f ")

CountedThreeLines ==
  /\ parsed.fn = "parse3DModel"
  /\ parsed.content = "v 0 0 0\nv 1 x 3\nf 1 2 3"
  /\ Len(parsed.data.vertices) = 2 /\ Len(parsed.data.faces) = 1

\* a vertex line is well formed when it has three components, all numbers
WellFormedVertex(line) ==
  /\ StartsWith(line, "v ")
  /\ Len(Numbers(line)) >= 3
  /\ \A i \in 1..3 : Numbers(line)[i].k = "num"

\* the line loop of parse3DModel over the well-formed vertex lines alone
WellFormedOnly(content) ==
  ParseLines(EmptyData, SelectSeq(Split(content, "\n"), WellFormedVertex))

\* C22: a line starting with 'v ' that has a non-numeric component or fewer
\* than three components adds nothing to the vertex list or to the bounding
\* box, which the well-formed vertices alone determine.
MalformedVertexSkipped ==
  parsed.fn = "parse3DModel" =>
    /\ parsed.data.vertices = WellFormedOnly(parsed.content).vertices
    /\ parsed.data.boundingBox = WellFormedOnly(parsed.content).boundingBox

MalformedVertexKept ==
  /\ parsed.fn = "parse3DModel"
  /\ parsed.content = "v 0 0 0\nv 1 x 3"
  /\ Len(parsed.data.vertices) = 2
  /\ parsed.data.vertices[2] = <<Num(1), NaN, Num(3)>>
  /\ parsed.data.boundingBox.min.y = NaN /\ parsed.data.boundingBox.max.y = NaN

\* min and max of one axis are numbers, in order, and are the least and the
\* greatest component of the vertices on that axis (i: 1 for x, 2 for y, 3 for z)
AxisBounds(vertices, min, max, i) ==
  /\ min.k = "num" /\ max.k = "num"
  /\ min.v <= max.v
  /\ \E n \in 1..Len(vertices) : At(vertices[n], i - 1) = min
  /\ \E n \in 1..Len(vertices) : At(vertices[n], i - 1) = max
  /\ \A n \in 1..Len(vertices) :
       /\ At(vertices[n], i - 1).k = "num"
       /\ min.v <= At(vertices[n], i - 1).v
       /\ At(vertices[n], i - 1).v <= max.v

\* C23: for an OBJ text with at least one vertex the bounding box has
\* min <= max on every axis, and min and max are the component-wise minimum
\* and maximum over all vertices.
BoundingBoxOrdered ==
  (parsed.fn = "parse3DModel" /\ Len(parsed.data.vertices) >= 1) =>
    LET bb == parsed.data.boundingBox
    IN  /\ AxisBounds(parsed.data.vertices, bb.min.x, bb.max.x, 1)
        /\ AxisBounds(parsed.data.vertices, bb.min.y, bb.max.y, 2)
        /\ AxisBounds(parsed.data.vertices, bb.min.z, bb.max.z, 3)

BoundingBoxNaN ==
  /\ parsed.fn = "parse3DModel"
  /\ parsed.content = "v 0 0 0\nv 1 2"
  /\ parsed.data.boundingBox.min.z = NaN
  /\ parsed.data.boundingBox.min.x = Num(0) /\ parsed.data.boundingBox.max.x = Num(1)

WriteNeverMissesRoot ==
  \A r \in DOMAIN procs :
    procs[r].op = "upload" /\ procs[r].pc = "done" =>
      procs[r].details # "ENOENT: no such file or directory"

\* an upload answered 500 for the write it made after a delete had removed
\* uploads/
WriteMissedRoot ==
  \E r \in DOMAIN procs :
    /\ procs[r].op = "upload"
    /\ procs[r].pc = "done"
    /\ procs[r].status = 500
    /\ procs[r].details = "ENOENT: no such file or directory"
    /\ ~uploadsDir

\* the two slots hold answered delete requests for the record, which was
\* there when each of them arrived
BothDeletesAnswered ==
  \A r \in DOMAIN procs :
    /\ procs[r].op = "delete"
    /\ procs[r].pc = "done"
    /\ procs[r].existed

\* C26: of two concurrent delete requests for the same existing id neither
\* answers 500, exactly one answers 200 and the other 404, and the record is
\* absent at the end
OneDeleteWins ==
  controller \in RaceControllers /\ BothDeletesAnswered =>
    /\ \A r \in DOMAIN procs : procs[r].status # 500
    /\ \E r \in DOMAIN procs :
         /\ procs[r].status = 200
         /\ \A q \in DOMAIN procs \ {r} : procs[q].status = 404
    /\ RaceId \notin DOMAIN db

\* both deletes found the record before either removed it, and both
\* answered 200
BothDeletesAnswered200 ==
  /\ controller \in RaceControllers
  /\ BothDeletesAnswered
  /\ \A r \in DOMAIN procs : procs[r].status = 200
  /\ RaceId \notin DOMAIN db

\* C27: a delete answered 200, with no backend call failing, of an asset
\* whose upload was answered 201 leaves no record of the id and no bytes
\* under the locator the upload wrote to, in S3 and on the local disk
UploadThenDeleteLeavesNothing ==
  [][(/\ Idle
      /\ req'.op \in DeleteOps
      /\ req'.fault = "none"
      /\ resp'.status = 200
      /\ req'.id \in DOMAIN locators)
     => /\ req'.id \notin DOMAIN db'
        /\ locators[req'.id] \notin DOMAIN s3' \cup DOMAIN disk']_vars

\* the only upload, POST /api/upload, was answered 201, the delete of its id
\* was answered 200 without a failing call, and the object is still in S3
DeletedButBytesLeft ==
  /\ controller = "upload"
  /\ req.op = "deleteImageS3"
  /\ req.fault = "none"
  /\ resp.status = 200
  /\ uploads = 1
  /\ req.id \in deleted
  /\ req.id \notin DOMAIN db
  /\ DOMAIN s3 # {}

\* two answered logout requests with the same token, both of which passed
\* protect: each found no blacklist entry, so neither entry was written yet
TwoLogoutsPastProtect(r, q) ==
  /\ r # q
  /\ procs[r].op = "logout" /\ procs[q].op = "logout"
  /\ procs[r].token = procs[q].token
  /\ procs[r].pc = "done" /\ procs[q].pc = "done"
  /\ procs[r].status # 401 /\ procs[q].status # 401

\* C28: two logout requests with the same valid token that both pass protect
\* before either writes the blacklist both answer 200, and the blacklist then
\* holds the entry of that token
BothLogoutsSucceed ==
  controller = "auth" =>
    \A r \in DOMAIN procs, q \in DOMAIN procs :
      TwoLogoutsPastProtect(r, q) =>
        /\ procs[r].status = 200 /\ procs[q].status = 200
        /\ procs[r].token \in DOMAIN auth.blacklist

\* the first logout wrote the entry and answered 200; the second ran into the
\* unique index of the token and answered 500
SecondLogoutAnswered500 ==
  /\ controller = "auth"
  /\ \E r \in DOMAIN procs, q \in DOMAIN procs :
       /\ TwoLogoutsPastProtect(r, q)
       /\ procs[r].status = 200
       /\ procs[q].status = 500
       /\ procs[q].error = "Error during logout"
       /\ procs[r].token \in DOMAIN auth.blacklist

OneResponseOneSave ==
  req.op \in UploadOps => log.sends = 1 /\ log.saves <= 1

\* addImage of the multi-backend draft answered 201, then called save() a
\* second time and tried to respond twice more
SavedAndSentAgain ==
  /\ req.op = "addImage"
  /\ resp.status = 201
  /\ resp.id \in DOMAIN db
  /\ log.saves = 2
  /\ log.sends = 3

=============================================================================
